---- MODULE Spec2Model ----
(***************************************************************************)
(* A model of the AstrBot core: the event bus, the handler registry, the   *)
(* pipeline scheduler (onion model), the LLM-request stage and the reply   *)
(* stage.  Each subsystem has its own specification over a shared set of   *)
(* variables; the variables of the other subsystems stay at their initial  *)
(* value.                                                                  *)
(***************************************************************************)
EXTENDS Integers, Sequences, FiniteSets, TLC

\* ------------------------------------------------------------------ bounds
\* Number of events the platform adapters put on the queue in one behaviour.
MaxEvents == 4
\* Number of distinct handlers (fully-qualified names) plugins may register.
NumHandlers == 3
\* Largest priority a handler is registered with.
MaxPriority == 2
\* Largest number of tool calls one LLM response carries.
MaxToolCalls == 2
\* Number of provider calls after which a pipeline run is no longer followed.
MaxProviderCalls == 2
\* Number of registered pipeline stages.
NumStages == 3
\* Largest number of items a generator stage yields in one invocation.
MaxYields == 2
\* Largest number of components of a result chain.
MaxComps == 4
\* Number of coroutines the plugins registered as tasks.
NumExtraTasks == 1
\* Number of plugin reloads requested in one behaviour.
MaxReloads == 1
\* Number of commands posted to the mailbox of the remote-client control task.
MaxCommands == 3
\* Number of init commands among them: the client tasks of one behaviour.
MaxClients == 2
\* Number of conversations created in one behaviour.
MaxConversations == 3
MaxMessages == 4
MaxRounds == 4
MaxContextLength == 3
\* Number of events of one session whose pipeline runs are followed together.
NumRuns == 2
\* Number of API keys a provider is configured with.
NumKeys == 2
\* Number of entries of the history a provider call is given.
MaxHistory == 2
\* A capacity an adapter would see as a full queue, were the queue bounded.
QueueCapacity == 3

VARIABLES
    \* --- event bus (event_bus.py, core_lifecycle.py)
    event_queue,        \* EventBus.event_queue: the asyncio.Queue of events
    enqueued,           \* history: every event put, in put order
    tasks,              \* the pipeline tasks created by dispatch, in creation order
    dispatcher,         \* the task running EventBus.dispatch (name "event_bus")
    extra_tasks,        \* the tasks of the coroutines the plugins registered
    lc_pc,              \* AstrBotCoreLifecycle: "running", then the steps of stop
    reload_pc,          \* PluginManager.reload: "idle", or "cleared" before load
    lc_log,             \* history: registry mutations seen by a running pipeline task
    \* --- handler registry (star_handler.py, star.py)
    handlers,           \* StarHandlerRegistry._handlers: list of (-priority, handler)
    star_handlers_map,  \* StarHandlerRegistry.star_handlers_map: full name -> handler
    star_map,           \* star.star_map: module path -> StarMetadata
    \* --- LLM-request stage (llm_request.py), one pipeline run of one event
    llm_pc,             \* position of the run inside process / requesting
    llm_cfg,            \* the event's platform id and the stage's configuration
    req,                \* the ProviderRequest of the run
    llm_response,       \* final_llm_response of the current loop iteration
    tool_idx,           \* index of the next tool call of the round-trip
    tool_call_result,   \* the list tool_call_result of _handle_function_tools
    hook_idx,           \* index of the next handler of the running hook
    ev_result,          \* AstrMessageEvent._result and the extra tool_call_result
    store_history,      \* the history of the conversation in the conversation store
    llm_log,            \* history: handlers and tools invoked, provider calls, writes
    \* --- pipeline scheduler (scheduler.py), one run of execute for one event
    sched_pc,           \* "run" inside _process_stages, "done", "failed"
    sched_cfg,          \* the event's platform name; coroutine or generator per stage
    stack,              \* the nested _process_stages calls, innermost last
    sched_ev,           \* the event: its result (none/continue/stop), _has_send_oper
    stage_status,       \* history: where the latest invocation of each stage is
    sched_log,          \* history: stops observed, stage starts, sends
    \* --- respond stage (respond/stage.py), one invocation of process
    resp_pc,            \* "start", "seg", "send", "hooks", "done"
    resp_cfg,           \* platform_settings: segmented reply, mention, quote
    resp_in,            \* history: the result the stage was entered with
    resp_result,        \* the event's result
    decorated_comps,    \* decorated_comps of the segmented reply
    seg_idx,            \* position of the segmented reply in result.chain
    resp_hook_idx,      \* position in the on_after_message_sent handlers
    resp_sent,          \* history: the send calls, in order, failed ones included
    resp_invoked,       \* history: the hook handlers invoked
    resp_hook_raised,   \* history: the hook handler that ran last raised
    \* --- remote tool clients (func_tool_manager.py)
    mcp_service_queue,  \* FuncCall.mcp_service_queue: the mailbox of the control task
    mcp_client_dict,    \* FuncCall.mcp_client_dict: name and client, in insertion order
    mcp_client_event,   \* FuncCall.mcp_client_event: per name, the client task whose event it holds
    mcp_event_set,      \* per client task: its stop event is set
    mcp_task,           \* per client task: its server name and where it is
    mcp_func_list,      \* FuncCall.func_list: the tools with origin "mcp"
    mcp_log,            \* history: commands posted, clients a terminate applied to
    \* --- conversation manager (conversation_mgr.py)
    session_conversations,  \* ConversationManager.session_conversations
    conversations,      \* the conversations of the database: (user id, cid)
    conv_log,           \* history: the call that ran last, and the state it found
    \* --- functions of the LLM-request stage applied to drawn inputs
    pairs,              \* _process_tool_message_pairs: arguments and results
    trim,               \* the context-window cut: configuration, contexts, result
    \* --- one pipeline run in streaming mode (scheduler.py, llm_request.py)
    run,                \* where the process stage is, and what the run has sent
    \* --- platform settings (dashboard/routes/plugin.py, star.py)
    plugin_enable,      \* config["platform_settings"]["plugin_enable"]
    \* --- one text_chat call of a provider (provider/sources)
    prov,               \* payload, key pool, retry counters, outcome
    \* --- two pipeline runs of one session (llm_request.py, event_bus.py)
    duo                 \* the stored history and where each run is

busVars == <<event_queue, enqueued, tasks, dispatcher, extra_tasks, lc_pc, reload_pc,
            lc_log>>
regVars == <<handlers, star_handlers_map, star_map>>
llmVars == <<llm_pc, llm_cfg, req, llm_response, tool_idx, tool_call_result, hook_idx,
             ev_result, store_history, llm_log>>
schedVars == <<sched_pc, sched_cfg, stack, sched_ev, stage_status, sched_log>>
vars == <<event_queue, enqueued, tasks, dispatcher, extra_tasks, lc_pc, reload_pc,
          lc_log, handlers, star_handlers_map, star_map,
          llm_pc, llm_cfg, req, llm_response, tool_idx, tool_call_result, hook_idx,
          ev_result, store_history, llm_log,
          sched_pc, sched_cfg, stack, sched_ev, stage_status, sched_log,
          resp_pc, resp_cfg, resp_in, resp_result, decorated_comps, seg_idx,
          resp_hook_idx, resp_sent, resp_invoked, resp_hook_raised,
          mcp_service_queue, mcp_client_dict, mcp_client_event, mcp_event_set,
          mcp_task, mcp_func_list, mcp_log,
          session_conversations, conversations, conv_log, pairs, trim, run,
          plugin_enable, prov, duo>>
fnVars == <<pairs, trim>>
extVars == <<plugin_enable, prov, duo>>
convVars == <<session_conversations, conversations, conv_log>>
mcpVars == <<mcp_service_queue, mcp_client_dict, mcp_client_event, mcp_event_set,
             mcp_task, mcp_func_list, mcp_log>>
respVars == <<resp_pc, resp_cfg, resp_in, resp_result, decorated_comps, seg_idx,
              resp_hook_idx, resp_sent, resp_invoked, resp_hook_raised>>

\* What an action of one subsystem leaves alone: the other subsystems.
BusFrame == UNCHANGED <<regVars, llmVars, schedVars, respVars, mcpVars, convVars, fnVars, run, extVars>>
RegFrame == UNCHANGED <<busVars, llmVars, schedVars, respVars, mcpVars, convVars, fnVars, run, extVars>>
LLMFrame == UNCHANGED <<busVars, regVars, schedVars, respVars, mcpVars, convVars, fnVars, run, extVars>>
SchedFrame == UNCHANGED <<busVars, regVars, llmVars, respVars, mcpVars, convVars, fnVars, run, extVars>>
RespFrame == UNCHANGED <<busVars, regVars, llmVars, schedVars, mcpVars, convVars, fnVars, run, extVars>>
ConvFrame == UNCHANGED <<busVars, regVars, llmVars, schedVars, respVars, mcpVars, fnVars, run, extVars>>
McpFrame == UNCHANGED <<busVars, regVars, llmVars, schedVars, respVars, convVars, fnVars, run, extVars>>
FnFrame == UNCHANGED <<busVars, regVars, llmVars, schedVars, respVars, convVars, mcpVars, run, extVars>>

\* ------------------------------------------------------------ small helpers
Range(s) == {s[i] : i \in 1..Len(s)}

RECURSIVE SeqMap(_, _)
SeqMap(Op(_), s) == IF s = <<>> THEN <<>> ELSE <<Op(Head(s))>> \o SeqMap(Op, Tail(s))

Front(s) == SubSeq(s, 1, Len(s) - 1)
Last(s) == s[Len(s)]
RemoveAt(s, i) == SubSeq(s, 1, i - 1) \o SubSeq(s, i + 1, Len(s))

\* ================================================================ event bus
Events == 1..MaxEvents

ExtraTasks == 1..NumExtraTasks
NoLifecycleLog == [mutated_in_flight |-> FALSE, reloads |-> 0]

\* The state after AstrBotCoreLifecycle.initialize and _load: an empty queue,
\* the dispatcher and the registered tasks running behind their wrappers.
BusInit ==
    /\ event_queue = <<>>
    /\ enqueued = <<>>
    /\ tasks = <<>>
    /\ dispatcher = "running"
    /\ extra_tasks = [i \in ExtraTasks |-> "running"]
    /\ lc_pc = "running"
    /\ reload_pc = "idle"
    /\ lc_log = NoLifecycleLog

\* Queue(): maxsize is 0.
QueueMaxsize == 0

\* asyncio.Queue.full: a queue with maxsize <= 0 is never full.
QueueFull(q) == QueueMaxsize > 0 /\ Len(q) >= QueueMaxsize

\* A platform adapter commits an event: event_queue.put_nowait(event).  The
\* queue is created without a maxsize, so the put never blocks.
AdapterPut ==
    /\ BusFrame
    /\ Len(enqueued) < MaxEvents
    /\ lc_pc \in {"running", "terminating"}
    /\ ~QueueFull(event_queue)
    /\ LET e == Len(enqueued) + 1 IN
        /\ event_queue' = Append(event_queue, e)
        /\ enqueued' = Append(enqueued, e)
    /\ UNCHANGED <<tasks, dispatcher, extra_tasks, lc_pc, reload_pc, lc_log>>

\* Faulty variant: it takes the newest event instead of the oldest.
QueueGetNewest(q) == [item |-> Last(q), rest |-> Front(q)]

\* asyncio.Queue.get on a non-empty queue: the oldest item leaves the queue.
QueueGet(q) == [item |-> Head(q), rest |-> Tail(q)]

\* One iteration of EventBus.dispatch: take an event, create one task that
\* runs PipelineScheduler.execute(event); the task is not awaited.
Dispatch ==
    /\ BusFrame
    /\ dispatcher = "running"
    /\ event_queue # <<>>
    /\ LET got == QueueGet(event_queue) IN
        /\ event_queue' = got.rest
        /\ tasks' = Append(tasks,
                           [event |-> got.item, state |-> "running",
                            after_failure |->
                               \E t \in 1..Len(tasks) : tasks[t].state = "failed"])
    /\ UNCHANGED <<enqueued, dispatcher, extra_tasks, lc_pc, reload_pc, lc_log>>

\* Faulty variant: the dispatcher awaits the run, so its exception ends the loop.
DispatcherAwaitingRun(d, how) == IF how = "failed" THEN "failed" ELSE d

\* The dispatcher after a run it spawned has ended: asyncio.create_task is not
\* awaited, so the run's outcome does not reach the loop.
DispatcherAfterRun(d, how) == d

\* A spawned pipeline run ends, normally or with an exception that stays
\* inside its (never awaited) task.
PipelineEnd(t, how) ==
    /\ BusFrame
    /\ t \in 1..Len(tasks)
    /\ tasks[t].state = "running"
    /\ tasks' = [tasks EXCEPT ![t].state = how]
    /\ dispatcher' = DispatcherAfterRun(dispatcher, how)
    /\ UNCHANGED <<event_queue, enqueued, extra_tasks, lc_pc, reload_pc, lc_log>>

BusNext ==
    \/ AdapterPut
    \/ Dispatch
    \/ \E t \in 1..MaxEvents : PipelineEnd(t, "done")
    \/ \E t \in 1..MaxEvents : PipelineEnd(t, "failed")

\* ========================================================= handler registry
EventTypes == {"OnLLMRequestEvent", "OnLLMResponseEvent", "OnAfterMessageSentEvent",
               "OnAstrBotLoadedEvent"}
HookKinds == {"OnLLMRequestEvent", "OnLLMResponseEvent"}
Plugins == {"pluginA", "pluginB"}
Platforms == {"webchat", "tg"}
NoPlatform == "None"
NoPriority == -1            \* "priority" is not a key of extras_configs
HandlerNames == 1..NumHandlers

\* The plugin that owns a handler (handler_module_path), fixed by its name.
ModuleOf(n) == IF n % 2 = 1 THEN "pluginA" ELSE "pluginB"

\* StarMetadata as far as the registry reads it.
DefaultStar == [present |-> TRUE, activated |-> TRUE,
                supported_platforms |-> [p \in Platforms |-> "unset"]]

RegInit ==
    /\ handlers = <<>>
    /\ star_handlers_map = {}
    /\ star_map = [m \in Plugins |-> DefaultStar]

\* StarHandlerMetadata.__lt__
HandlerLt(a, b) == a.priority < b.priority

\* Comparison of the heap items (-priority, handler): tuples compare by the
\* first component, and by the handlers when those are equal.
ItemLess(a, b) ==
    IF a.key # b.key THEN a.key < b.key
    ELSE IF a.handler = b.handler THEN FALSE
    ELSE HandlerLt(a.handler, b.handler)

\* heapq._siftdown(heap, 0, pos) with the new item in hand (1-based positions).
RECURSIVE SiftDown(_, _, _)
SiftDown(heap, newitem, pos) ==
    IF pos > 1 /\ ItemLess(newitem, heap[pos \div 2])
    THEN SiftDown([heap EXCEPT ![pos] = heap[pos \div 2]], newitem, pos \div 2)
    ELSE [heap EXCEPT ![pos] = newitem]

\* Faulty variant: it inserts at the front, ignoring the priority.
HeapPushFront(heap, item) == <<item>> \o heap

\* heapq.heappush(heap, item)
HeapPush(heap, item) == SiftDown(Append(heap, item), item, Len(heap) + 1)

\* StarHandlerRegistry.append: the item is pushed on the list, and the entry
\* of the map under the handler's full name is set, replacing the handler that
\* was registered under that name.
RegistryAppend(name, prio, kind) ==
    /\ RegFrame
    /\ Len(handlers) < NumHandlers
    /\ LET h == [handler_full_name |-> name,
                 event_type |-> kind,
                 handler_module_path |-> ModuleOf(name),
                 priority |-> IF prio = NoPriority THEN 0 ELSE prio]
       IN /\ handlers' = HeapPush(handlers, [key |-> -h.priority, handler |-> h])
          /\ star_handlers_map' =
                {x \in star_handlers_map : x.handler_full_name # name} \cup {h}
    /\ UNCHANGED star_map

\* StarHandlerRegistry.remove: pops the first list entry equal to the handler,
\* then deletes its name from the map.
RegistryRemove(i) ==
    /\ RegFrame
    /\ i \in 1..Len(handlers)
    /\ LET h == handlers[i].handler
           first == CHOOSE j \in 1..Len(handlers) :
                        /\ handlers[j].handler = h
                        /\ \A k \in 1..(j - 1) : handlers[k].handler # h
       IN /\ handlers' = RemoveAt(handlers, first)
          /\ star_handlers_map' =
                {x \in star_handlers_map : x.handler_full_name # h.handler_full_name}
    /\ UNCHANGED star_map

\* StarHandlerRegistry.clear
RegistryClear ==
    /\ RegFrame
    /\ handlers # <<>>
    /\ handlers' = <<>>
    /\ star_handlers_map' = {}
    /\ UNCHANGED star_map

\* StarHandlerMetadata.is_enabled_for_platform
IsEnabledForPlatform(h, platform_id) ==
    LET plugin == star_map[h.handler_module_path] IN
    IF ~plugin.present THEN TRUE
    ELSE IF ~plugin.activated THEN FALSE
    ELSE IF plugin.supported_platforms[platform_id] # "unset"
         THEN plugin.supported_platforms[platform_id] = "enabled"
    ELSE TRUE

\* The filter of get_handlers_by_event_type for one handler.
HandlerSelected(h, event_type, only_activated, platform_id) ==
    /\ h.event_type = event_type
    /\ only_activated =>
          LET plugin == star_map[h.handler_module_path]
          IN plugin.present /\ plugin.activated
    /\ (platform_id # NoPlatform /\ event_type # "OnAstrBotLoadedEvent") =>
          IsEnabledForPlatform(h, platform_id)

\* StarHandlerRegistry.get_handlers_by_event_type: the handlers in the order of
\* the list _handlers.
GetHandlersByEventType(event_type, only_activated, platform_id) ==
    LET Item(x) == x.handler
        Keep(x) == HandlerSelected(x.handler, event_type, only_activated, platform_id)
    IN SeqMap(Item, SelectSeq(handlers, Keep))

RegNext ==
    \/ \E n \in HandlerNames, p \in {NoPriority} \cup (0..MaxPriority), k \in HookKinds :
          RegistryAppend(n, p, k)
    \/ \E i \in 1..NumHandlers : RegistryRemove(i)
    \/ RegistryClear

\* ========================================================= LLM-request stage
\* A history entry: role, the ids of tool_calls (assistant), tool_call_id
\* (tool), the content, and the markers _tool_call_history and _no_save.
Entry(role, tool_calls, tool_call_id, content, tch, no_save) ==
    [role |-> role, tool_calls |-> tool_calls, tool_call_id |-> tool_call_id,
     content |-> content, tool_call_history |-> tch, no_save |-> no_save]

UserEntry(content) == Entry("user", <<>>, 0, content, FALSE, FALSE)
AssistantEntry(content) == Entry("assistant", <<>>, 0, content, FALSE, FALSE)

\* ToolCallMessageSegment(role="tool", tool_call_id=..., content=...)
ToolCallMessageSegment(id, content) == Entry("tool", <<>>, id, content, FALSE, FALSE)

\* LLMResponse.to_openai_tool_calls: one tool call per id of the response.
ToOpenaiToolCalls(resp) == resp.tools_call_ids

\* AssistantMessageSegment(role="assistant", tool_calls=...)
AssistantMessageSegment(tool_calls) ==
    Entry("assistant", tool_calls, 0, "", FALSE, FALSE)

\* ToolCallsResult.to_openai_messages: the assistant segment, then the tool
\* segments.
ToOpenaiMessages(tcr) == <<tcr.tool_calls_info>> \o tcr.tool_calls_result

NoToolCallsResult == [present |-> FALSE, tool_calls_info |-> AssistantMessageSegment(<<>>),
                      tool_calls_result |-> <<>>]

\* The tools the tool manager holds: two local tools, one per plugin, and a
\* remote (mcp) tool; get_func returns None for any other name.
LocalTools == {"toolA", "toolB"}
ToolNames == LocalTools \cup {"mcpTool", "unknownTool"}
ToolPlugin(name) == IF name = "toolA" THEN "pluginA" ELSE "pluginB"

\* What one tool call does once it is looked up:
\*   value        the handler returns a scalar
\*   none         the handler returns None
\*   result       the handler yields a MessageEventResult (sets the event result)
\*   two_values   the handler is a generator yielding two scalars
\*   raise        the handler (or the remote call) raises
\*   text         the remote call returns a result with a text content
\*   empty        the remote call returns a falsy result
LocalBehaviours == {"value", "none", "result", "two_values", "raise"}
RemoteBehaviours == {"text", "empty", "raise"}
BehavioursOf(name) ==
    IF name \in LocalTools THEN LocalBehaviours
    ELSE IF name = "mcpTool" THEN RemoteBehaviours
    ELSE {"raise"}      \* None has no attribute origin

\* _process_tool_message_pairs: the marked tool entries that follow position j.
RECURSIVE RelatedTools(_, _)
RelatedTools(messages, j) ==
    IF j <= Len(messages) /\ messages[j].role = "tool" /\ messages[j].tool_call_history
    THEN <<messages[j]>> \o RelatedTools(messages, j + 1)
    ELSE <<>>

Untag(m) == [m EXCEPT !.tool_call_history = FALSE]

\* Faulty variant: it keeps an assistant entry with tool_calls even when no tool
\* entry follows it.
RECURSIVE ProcessPairsKeepLonely(_, _, _)
ProcessPairsKeepLonely(messages, i, remove_tags) ==
    IF i > Len(messages) THEN <<>>
    ELSE LET cur == messages[i] IN
        IF ~cur.tool_call_history
        THEN <<cur>> \o ProcessPairsKeepLonely(messages, i + 1, remove_tags)
        ELSE <<IF remove_tags THEN Untag(cur) ELSE cur>>
                \o ProcessPairsKeepLonely(messages, i + 1, remove_tags)

\* _process_tool_message_pairs(messages, remove_tags), from position i on.
RECURSIVE ProcessToolMessagePairs(_, _, _)
ProcessToolMessagePairs(messages, i, remove_tags) ==
    IF i > Len(messages) THEN <<>>
    ELSE LET cur == messages[i] IN
        IF ~cur.tool_call_history
        THEN <<cur>> \o ProcessToolMessagePairs(messages, i + 1, remove_tags)
        ELSE IF cur.role = "assistant" /\ cur.tool_calls # <<>>
        THEN LET related == RelatedTools(messages, i + 1)
                 j == i + 1 + Len(related)
                 group == <<cur>> \o related
             IN (IF related # <<>>
                 THEN (IF remove_tags THEN SeqMap(Untag, group) ELSE group)
                 ELSE <<>>)
                \o ProcessToolMessagePairs(messages, j, remove_tags)
        ELSE ProcessToolMessagePairs(messages, i + 1, remove_tags)

Tag(m) == [m EXCEPT !.tool_call_history = TRUE]

\* The histories a conversation may hold when the event arrives.
InitialHistories ==
    { <<>>,
      <<UserEntry("old"),
        Tag(AssistantMessageSegment(<<7>>)), Tag(ToolCallMessageSegment(7, "old")),
        AssistantEntry("old")>> }

\* The handlers registered during the runs of the LLM stage: for each hook one
\* handler of each plugin, appended in name order.
RECURSIVE PushAll(_, _)
PushAll(heap, items) ==
    IF items = <<>> THEN heap ELSE PushAll(HeapPush(heap, Head(items)), Tail(items))

HookHandler(name, kind, prio) ==
    [key |-> -prio,
     handler |-> [handler_full_name |-> name, event_type |-> kind,
                  handler_module_path |-> ModuleOf(name), priority |-> prio]]

StageHandlers ==
    PushAll(<<>>, << HookHandler(1, "OnLLMRequestEvent", 0),
                     HookHandler(2, "OnLLMRequestEvent", 1),
                     HookHandler(3, "OnLLMResponseEvent", 0),
                     HookHandler(4, "OnLLMResponseEvent", 0),
                     HookHandler(5, "OnAfterMessageSentEvent", 0),
                     HookHandler(6, "OnAfterMessageSentEvent", 0) >>)

NoResponse == [role |-> "none", completion_text |-> "", tools_call_ids |-> <<>>]
NoResult == [set |-> FALSE, stopped |-> FALSE, content_type |-> "none", chain |-> <<>>,
             tool_call_result |-> FALSE]
NoRequest == [contexts |-> <<>>, prompt |-> "", image_urls |-> <<>>, func_tool |-> FALSE,
              tool_calls_result |-> NoToolCallsResult, conversation |-> FALSE]
\* What the run has done so far: the hook handlers invoked, the tools whose
\* handler was started, for the current tool round the call ids that were
\* skipped, attempted, and that raised, whether the on_llm_response handler
\* that ran last raised, the same for the on_llm_request handler, the hook
\* that stopped the event, the exception (if any) that reached the except
\* clause of requesting, and the stored history the run started with.
NoFailure == [site |-> "none", kind |-> "none"]
EmptyLog == [invoked |-> {}, tools_run |-> {}, skipped |-> {}, ran |-> {}, raised |-> {},
             provider_calls |-> 0, writes |-> 0, round_trips |-> 0,
             hook_raised |-> FALSE, req_hook_raised |-> FALSE, stopped_by |-> "none",
             failure |-> NoFailure, store_before |-> <<>>]

LLMIdle ==
    /\ llm_pc = "off"
    /\ llm_cfg = [platform_id |-> "tg", streaming_response |-> FALSE, provider |-> TRUE,
                  input |-> "text"]
    /\ req = NoRequest
    /\ llm_response = NoResponse
    /\ tool_idx = 0
    /\ tool_call_result = <<>>
    /\ hook_idx = 0
    /\ ev_result = NoResult
    /\ store_history = <<>>
    /\ llm_log = EmptyLog

\* What the event brings to the stage: a request seeded in its extras (with
\* or without a prompt), or a message that has a text, only an image, neither
\* of them, or a text without the provider's wake prefix.
SeededInputs == {"seeded_prompt", "seeded_empty"}
TextInputs == SeededInputs \cup {"text", "empty", "no_wake_prefix"}
EventInputs == TextInputs \cup {"image"}

LLMStartState(inputs) ==
    /\ llm_pc = "start"
    /\ llm_cfg \in [platform_id : {"tg"}, streaming_response : BOOLEAN,
                    provider : BOOLEAN, input : inputs]
    /\ req = NoRequest
    /\ llm_response = NoResponse
    /\ tool_idx = 0
    /\ tool_call_result = <<>>
    /\ hook_idx = 0
    /\ ev_result = NoResult
    /\ store_history \in InitialHistories
    \* with an empty history a seeded request is read like a message
    /\ llm_cfg.input \in SeededInputs => store_history # <<>>
    /\ llm_log = [EmptyLog EXCEPT !.store_before = store_history]

\* The state when the LLM stage is entered for an event of platform tg: with or
\* without a selected provider, either response mode, any initial history.
LLMInit == LLMStartState(TextInputs)

\* The same with every kind of message.
LLMInitAnyInput == LLMStartState(EventInputs)

\* star_map where pluginB is activated or not and has platform tg unset or
\* disabled.
StarMapOf(act, tg) ==
    [m \in Plugins |->
        IF m = "pluginB"
        THEN [present |-> TRUE, activated |-> act,
              supported_platforms |->
                 [p \in Platforms |-> IF p = "tg" THEN tg ELSE "unset"]]
        ELSE DefaultStar]

LLMRegInit ==
    /\ handlers = StageHandlers
    /\ star_handlers_map = {handlers[i].handler : i \in 1..Len(handlers)}
    /\ \E act \in BOOLEAN, tg \in {"unset", "disabled"} :
          /\ ~act => tg = "unset"
          /\ star_map = StarMapOf(act, tg)

\* Every plugin activated and no platform disabled.
LLMRegInitAllEnabled ==
    /\ handlers = StageHandlers
    /\ star_handlers_map = {handlers[i].handler : i \in 1..Len(handlers)}
    /\ star_map = StarMapOf(TRUE, "unset")

\* MessageEventResult().message(text) with a content type.
SetResult(content_type, text) ==
    [set |-> TRUE, stopped |-> FALSE, content_type |-> content_type, chain |-> <<text>>,
     tool_call_result |-> ev_result.tool_call_result]

\* AstrMessageEvent.stop_event
StopEvent(r) ==
    IF r.set THEN [r EXCEPT !.stopped = TRUE]
    ELSE [r EXCEPT !.set = TRUE, !.stopped = TRUE, !.content_type = "general"]

\* AstrMessageEvent.clear_result
ClearResult(r) == [r EXCEPT !.set = FALSE, !.stopped = FALSE, !.content_type = "none",
                            !.chain = <<>>]

\* Faulty variant: a request without prompt and images is sent all the same.
AlwaysSomethingToAsk(r) == FALSE

\* "not req.prompt and not req.image_urls" (line 114).
NothingToAsk(r) == r.prompt = "" /\ r.image_urls = <<>>

\* process, up to the on_llm_request hook: no provider, a message without the
\* provider's wake prefix, or an empty prompt without images, ends the stage;
\* a request seeded in the extras has its contexts read through the tool-pair
\* rule, a derived one takes the history as stored.
LLMStart ==
    /\ LLMFrame
    /\ llm_pc = "start"
    /\ IF ~llm_cfg.provider \/ llm_cfg.input = "no_wake_prefix"
       THEN /\ llm_pc' = "done"
            /\ UNCHANGED req
       ELSE /\ req' = [contexts |-> IF llm_cfg.input \in SeededInputs
                                    THEN ProcessToolMessagePairs(store_history, 1, TRUE)
                                    ELSE store_history,
                       prompt |-> IF llm_cfg.input \in {"seeded_prompt", "text"}
                                  THEN "hi" ELSE "",
                       image_urls |-> IF llm_cfg.input = "image"
                                      THEN <<"image">> ELSE <<>>,
                       func_tool |-> TRUE,
                       tool_calls_result |-> NoToolCallsResult,
                       conversation |-> TRUE]
            /\ llm_pc' = IF NothingToAsk(req') THEN "done" ELSE "hook_req"
    /\ hook_idx' = 1
    /\ UNCHANGED <<llm_cfg, llm_response, tool_idx, tool_call_result, ev_result,
                   store_history, llm_log>>

\* Faulty variant: the on_llm_request lookup forgets the platform filter.
OnLLMRequestHandlersAllPlatforms ==
    GetHandlersByEventType("OnLLMRequestEvent", TRUE, NoPlatform)

\* The handlers of the on_llm_request hook (llm_request.py lines 120-123).
OnLLMRequestHandlers ==
    GetHandlersByEventType("OnLLMRequestEvent", TRUE, llm_cfg.platform_id)

\* The handlers of the on_llm_response hook (llm_request.py lines 190-192).
OnLLMResponseHandlers ==
    GetHandlersByEventType("OnLLMResponseEvent", TRUE, NoPlatform)

HookBehaviours == {"ok", "raise", "stop", "no_save"}

\* Faulty variant: a handler that raises ends the loop of its hook.
LoopEndsOnRaise(beh, stopped) == beh # "raise" /\ ~stopped

\* The loop over the handlers of a hook: the exception of a handler is caught
\* and logged inside the loop, and only a stopped event ends it.
LoopGoesOn(beh, stopped) == ~stopped

\* An entry a plugin adds to the request's contexts for this call only.
EphemeralEntry == Entry("system", <<>>, 0, "ephemeral", FALSE, TRUE)

\* The on_llm_request handlers whose body may add an ephemeral entry.
EphemeralHandlers == {1}

\* What a handler of the on_llm_request hook does to the request it is given.
HookRequest(r, h, beh) ==
    IF beh = "no_save" /\ h.handler_full_name \in EphemeralHandlers
    THEN [r EXCEPT !.contexts = Append(@, EphemeralEntry)]
    ELSE r

\* The payload preparation of a provider: context_query holds the very entries
\* of req.contexts, and the _no_save key is deleted from each of them.
DelNoSave(contexts) == SeqMap(LAMBDA m : [m EXCEPT !.no_save = FALSE], contexts)

Invoke(hook, h) == [hook |-> hook, handler |-> h.handler_full_name,
                    module |-> h.handler_module_path]

\* One iteration of the on_llm_request loop: the handler runs (an exception
\* it raises is logged), and a stopped event ends the stage.
OnLLMRequestStep(beh) ==
    /\ LLMFrame
    /\ llm_pc = "hook_req"
    /\ hook_idx <= Len(OnLLMRequestHandlers)
    /\ llm_log' = [llm_log EXCEPT
                      !.invoked = @ \cup {Invoke("on_llm_request",
                                                 OnLLMRequestHandlers[hook_idx])},
                      !.stopped_by = IF beh = "stop" THEN "on_llm_request" ELSE @,
                      !.req_hook_raised = (beh = "raise")]
    /\ req' = HookRequest(req, OnLLMRequestHandlers[hook_idx], beh)
    /\ ev_result' = IF beh = "stop" THEN StopEvent(ev_result) ELSE ev_result
    /\ IF LoopGoesOn(beh, ev_result'.stopped)
       THEN llm_pc' = llm_pc /\ hook_idx' = hook_idx + 1
       ELSE llm_pc' = "done" /\ hook_idx' = hook_idx
    /\ UNCHANGED <<llm_cfg, llm_response, tool_idx, tool_call_result, store_history>>

\* After the hook: in streaming mode the result becomes the stream of
\* requesting(req); then the call loop starts.
OnLLMRequestDone ==
    /\ LLMFrame
    /\ llm_pc = "hook_req"
    /\ hook_idx > Len(OnLLMRequestHandlers)
    /\ ev_result' = IF llm_cfg.streaming_response
                    THEN SetResult("STREAMING_RESULT", "stream")
                    ELSE [ev_result EXCEPT !.tool_call_result = FALSE]
    /\ llm_pc' = "call"
    /\ llm_log' = [llm_log EXCEPT !.req_hook_raised = FALSE]
    /\ UNCHANGED <<llm_cfg, req, llm_response, tool_idx, tool_call_result, hook_idx,
                   store_history>>

\* The responses a provider call may return.  A tool response carries the ids
\* 1..n of its n calls; the name of each call is drawn when the call is
\* processed (the names are read nowhere before).
Responses ==
    { [role |-> r, completion_text |-> "text", tools_call_ids |-> <<>>] :
         r \in {"assistant", "err"} }
    \cup
    { [role |-> "tool", completion_text |-> t, tools_call_ids |-> [i \in 1..n |-> i]] :
         t \in {"", "text"}, n \in 1..MaxToolCalls }

\* The exceptions a call may raise: an Exception, or a BaseException that is
\* not an Exception (CancelledError, KeyboardInterrupt).
ExceptionKinds == {"Exception", "CancelledError"}

\* The text of the failure result: it names the type and the message.
FailureText(kind) ==
    IF kind = "Exception" THEN "request failed: type=Exception msg=msg"
    ELSE "request failed: type=CancelledError msg=msg"

\* "AstrBot request failed" result of the except clause of requesting.
RequestFailed(kind) == SetResult("general", FailureText(kind))

\* Faulty variant: the clause is "except Exception".
CaughtIfException(kind) == kind = "Exception"

\* The except clause of requesting is "except BaseException".
Caught(kind) == TRUE

\* An exception reaches the end of the try block of requesting: the clause
\* sets the failure result, or the exception leaves the stage.
Raise(site, kind) ==
    /\ llm_log' = [llm_log EXCEPT
                      !.provider_calls = IF site = "provider" THEN @ + 1 ELSE @,
                      !.failure = [site |-> site, kind |-> kind]]
    /\ IF Caught(kind)
       THEN ev_result' = RequestFailed(kind) /\ llm_pc' = "done"
       ELSE ev_result' = ev_result /\ llm_pc' = "propagated"

\* One provider call of the loop: text_chat / text_chat_stream returns a final
\* response.
ProviderCall(resp) ==
    /\ LLMFrame
    /\ llm_pc = "call"
    /\ llm_log.provider_calls < MaxProviderCalls
    /\ req' = [req EXCEPT !.contexts = DelNoSave(@)]
    /\ llm_response' = resp
    /\ llm_log' = [llm_log EXCEPT !.provider_calls = @ + 1]
    /\ llm_pc' = "hook_resp"
    /\ hook_idx' = 1
    /\ UNCHANGED <<llm_cfg, tool_idx, tool_call_result, ev_result, store_history>>

\* A provider call that raises, or yields no final response: the except clause
\* of requesting sets the failure result and the generator ends.
ProviderRaise(kind) ==
    /\ LLMFrame
    /\ llm_pc = "call"
    /\ llm_log.provider_calls < MaxProviderCalls
    /\ req' = [req EXCEPT !.contexts = DelNoSave(@)]
    /\ Raise("provider", kind)
    /\ UNCHANGED <<llm_cfg, llm_response, tool_idx, tool_call_result, hook_idx,
                   store_history>>

\* One iteration of the on_llm_response loop.
OnLLMResponseStep(beh) ==
    /\ LLMFrame
    /\ llm_pc = "hook_resp"
    /\ hook_idx <= Len(OnLLMResponseHandlers)
    /\ llm_log' = [llm_log EXCEPT
                      !.invoked = @ \cup {Invoke("on_llm_response",
                                                 OnLLMResponseHandlers[hook_idx])},
                      !.stopped_by = IF beh = "stop" THEN "on_llm_response" ELSE @,
                      !.hook_raised = (beh = "raise")]
    /\ ev_result' = IF beh = "stop" THEN StopEvent(ev_result) ELSE ev_result
    /\ IF LoopGoesOn(beh, ev_result'.stopped)
       THEN llm_pc' = llm_pc /\ hook_idx' = hook_idx + 1
       ELSE llm_pc' = "done" /\ hook_idx' = hook_idx
    /\ UNCHANGED <<llm_cfg, req, llm_response, tool_idx, tool_call_result,
                   store_history>>

\* _handle_llm_response / _handle_llm_stream_response: dispatch on the role.
HandleResponse ==
    /\ LLMFrame
    /\ llm_pc = "hook_resp"
    /\ hook_idx > Len(OnLLMResponseHandlers)
    /\ CASE llm_response.role = "assistant" ->
              /\ ev_result' = SetResult(IF llm_cfg.streaming_response
                                        THEN "STREAMING_FINISH" ELSE "LLM_RESULT",
                                        llm_response.completion_text)
              /\ llm_pc' = "save"
              /\ UNCHANGED <<tool_idx, tool_call_result>>
         [] llm_response.role = "err" ->
              /\ ev_result' = SetResult("general", "request failed: msg=text")
              /\ llm_pc' = "save"
              /\ UNCHANGED <<tool_idx, tool_call_result>>
         [] OTHER ->
              /\ llm_pc' = "tools"
              /\ tool_idx' = 1
              /\ tool_call_result' = <<>>
              /\ UNCHANGED ev_result
    /\ llm_log' = IF llm_response.role = "tool"
                  THEN [llm_log EXCEPT !.skipped = {}, !.ran = {}, !.raised = {},
                                       !.hook_raised = FALSE]
                  ELSE [llm_log EXCEPT !.hook_raised = FALSE]
    /\ UNCHANGED <<llm_cfg, req, llm_response, hook_idx, store_history>>

\* Faulty variant: the platform check is left out.
ToolNeverSkipped(name) == FALSE

\* The platform check of _handle_function_tools: the plugin of a local tool
\* has the event's platform mapped to false.
ToolSkipped(name) ==
    /\ name \in LocalTools
    /\ star_map[ToolPlugin(name)].present
    /\ star_map[ToolPlugin(name)].supported_platforms[llm_cfg.platform_id] = "disabled"

\* Faulty variant: an exception of a tool call leaves no entry.
ToolEntriesNoError(id, beh) ==
    CASE beh \in {"value", "text"} -> <<ToolCallMessageSegment(id, "value")>>
      [] beh = "two_values" -> <<ToolCallMessageSegment(id, "value"),
                                 ToolCallMessageSegment(id, "value2")>>
      [] OTHER -> <<>>

\* The tool entries one tool call appends to tool_call_result.
ToolEntries(id, beh) ==
    CASE beh = "value" -> <<ToolCallMessageSegment(id, "value")>>
      [] beh = "text" -> <<ToolCallMessageSegment(id, "value")>>
      [] beh = "two_values" -> <<ToolCallMessageSegment(id, "value"),
                                 ToolCallMessageSegment(id, "value2")>>
      [] beh = "raise" -> <<ToolCallMessageSegment(id, "error: msg")>>
      [] OTHER -> <<>>

\* One iteration of the loop of _handle_function_tools.  With req.func_tool
\* None the lookup itself raises; a skipped tool is not invoked and leaves
\* the event result alone; any other call ends with clear_result.
ToolCallStep(name, beh) ==
    /\ LLMFrame
    /\ llm_pc = "tools"
    /\ tool_idx <= Len(llm_response.tools_call_ids)
    /\ LET id == llm_response.tools_call_ids[tool_idx]
       IN IF ~req.func_tool
          THEN /\ beh = "raise"
               /\ tool_call_result' = tool_call_result \o ToolEntries(id, "raise")
               /\ llm_log' = [llm_log EXCEPT !.ran = @ \cup {id}, !.raised = @ \cup {id}]
               /\ UNCHANGED ev_result
          ELSE IF ToolSkipped(name)
          THEN /\ beh = "none"
               /\ llm_log' = [llm_log EXCEPT !.skipped = @ \cup {id}]
               /\ UNCHANGED <<tool_call_result, ev_result>>
          ELSE /\ beh \in BehavioursOf(name)
               /\ tool_call_result' = tool_call_result \o ToolEntries(id, beh)
               /\ llm_log' = [llm_log EXCEPT
                                 !.tools_run = IF name \notin LocalTools THEN @
                                               ELSE @ \cup {name},
                                 !.ran = @ \cup {id},
                                 !.raised = IF beh = "raise" THEN @ \cup {id} ELSE @]
               /\ ev_result' =
                     IF beh = "raise" THEN ev_result
                     ELSE [ClearResult(ev_result) EXCEPT !.tool_call_result =
                              (beh = "result") \/ ev_result.tool_call_result]
    /\ tool_idx' = tool_idx + 1
    /\ UNCHANGED <<llm_cfg, req, llm_response, hook_idx, llm_pc, store_history>>

\* Faulty variant: the tool entries of the earlier round-trips are kept in
\* front of the round's own, and the tool handle stays.
RequestAfterRoundKeepingAll(r, resp, entries) ==
    [r EXCEPT !.tool_calls_result =
                 [present |-> TRUE,
                  tool_calls_info |-> AssistantMessageSegment(ToOpenaiToolCalls(resp)),
                  tool_calls_result |-> @.tool_calls_result \o entries]]

\* The request after a round-trip with tool entries (lines 432-443): no tool
\* handle, and a new ToolCallsResult of the response's tool calls and the
\* round's entries.
RequestAfterRound(r, resp, entries) ==
    [r EXCEPT !.func_tool = FALSE,
              !.tool_calls_result =
                 [present |-> TRUE,
                  tool_calls_info |-> AssistantMessageSegment(ToOpenaiToolCalls(resp)),
                  tool_calls_result |-> entries]]

\* Faulty variant: the round-trip writes its entries to the conversation.
HistoryAfterRoundWritten(history, r, resp) ==
    history \o SeqMap(Tag, ToOpenaiMessages(r.tool_calls_result))

\* The stored history after a round-trip: _handle_function_tools has no call
\* of the conversation manager, the history is written after the loop only.
HistoryAfterRound(history, r, resp) == history

\* The end of _handle_function_tools: with tool entries the request gets the
\* round's ToolCallsResult, loses its tool handle and goes into another loop
\* iteration; without, the completion text (if any) becomes the result.
ToolsEnd ==
    /\ LLMFrame
    /\ llm_pc = "tools"
    /\ tool_idx > Len(llm_response.tools_call_ids)
    /\ IF tool_call_result # <<>>
       THEN /\ req' = RequestAfterRound(req, llm_response, tool_call_result)
            /\ llm_pc' = "call"
            /\ llm_log' = [llm_log EXCEPT !.round_trips = @ + 1]
            /\ store_history' = HistoryAfterRound(store_history, req', llm_response)
            /\ UNCHANGED ev_result
       ELSE /\ ev_result' = IF llm_response.completion_text # ""
                            THEN SetResult("general", llm_response.completion_text)
                            ELSE ev_result
            /\ llm_pc' = "save"
            /\ UNCHANGED <<req, llm_log, store_history>>
    /\ UNCHANGED <<llm_cfg, llm_response, tool_idx, tool_call_result, hook_idx>>

\* Faulty variant: the messages of the round-trip are written without the
\* _tool_call_history marker.
ContextsToSaveNoTags(r, resp) ==
    LET tool_messages ==
            IF r.tool_calls_result.present
            THEN ToOpenaiMessages(r.tool_calls_result)
            ELSE <<>>
        contexts == r.contexts \o <<UserEntry(r.prompt)>> \o tool_messages
                        \o <<AssistantEntry(resp.completion_text)>>
    IN SelectSeq(contexts, LAMBDA m : ~m.no_save)

\* The history _save_to_history writes for an assistant response.
ContextsToSave(r, resp) ==
    LET tool_messages ==
            IF r.tool_calls_result.present
            THEN ProcessToolMessagePairs(
                    SeqMap(Tag, ToOpenaiMessages(r.tool_calls_result)), 1, FALSE)
            ELSE <<>>
        contexts == r.contexts \o <<UserEntry(r.prompt)>> \o tool_messages
                        \o <<AssistantEntry(resp.completion_text)>>
    IN SelectSeq(contexts, LAMBDA m : ~m.no_save)

\* _save_to_history, then the end of requesting.
SaveToHistory ==
    /\ LLMFrame
    /\ llm_pc = "save"
    /\ IF req.conversation /\ llm_response.role = "assistant"
       THEN /\ store_history' = ContextsToSave(req, llm_response)
            /\ llm_log' = [llm_log EXCEPT !.writes = @ + 1]
       ELSE UNCHANGED <<store_history, llm_log>>
    /\ llm_pc' = "done"
    /\ UNCHANGED <<llm_cfg, req, llm_response, tool_idx, tool_call_result, hook_idx,
                   ev_result>>

\* _save_to_history raises while it writes the history of an assistant
\* response (the store rejects the update): nothing is written.
SaveRaise(kind) ==
    /\ LLMFrame
    /\ llm_pc = "save"
    /\ req.conversation /\ llm_response.role = "assistant"
    /\ Raise("save", kind)
    /\ UNCHANGED <<llm_cfg, req, llm_response, tool_idx, tool_call_result, hook_idx,
                   store_history>>

LLMNext ==
    \/ LLMStart
    \/ \E beh \in HookBehaviours : OnLLMRequestStep(beh)
    \/ OnLLMRequestDone
    \/ \E resp \in Responses : ProviderCall(resp)
    \/ \E kind \in ExceptionKinds : ProviderRaise(kind)
    \/ \E beh \in HookBehaviours : OnLLMResponseStep(beh)
    \/ HandleResponse
    \/ \E name \in ToolNames, beh \in LocalBehaviours \cup RemoteBehaviours :
          ToolCallStep(name, beh)
    \/ ToolsEnd
    \/ SaveToHistory
    \/ \E kind \in ExceptionKinds : SaveRaise(kind)

\* ======================================================= pipeline scheduler
\* One run of PipelineScheduler.execute for one event.  registered_stages is
\* sorted at construction, so a stage is its position 1..NumStages.  A stage's
\* process is either a coroutine or an async generator (fixed per stage); what
\* its body does to the event is drawn per invocation.
Stages == 1..NumStages
StageKinds == {"coroutine", "generator"}

\* What one stretch of a stage's body (up to its next yield or its end) does
\* to the event.
StageEffects == {"none", "set_result", "stop", "clear", "send", "send_streaming",
                 "send_raise"}

NoEvent == [result |-> "none", has_send_oper |-> FALSE]
NoSchedLog == [stop_observed_at |-> 0, late_starts |-> {}, sent |-> FALSE,
               final_sends |-> 0, started |-> {}, restarted |-> {},
               stopped |-> FALSE, second_yield |-> FALSE]

SchedIdle ==
    /\ sched_pc = "off"
    /\ sched_cfg = [platform_name |-> "tg", kinds |-> [i \in Stages |-> "coroutine"]]
    /\ stack = <<>>
    /\ sched_ev = NoEvent
    /\ stage_status = [i \in Stages |-> "idle"]
    /\ sched_log = NoSchedLog

SchedInit ==
    /\ sched_pc = "run"
    /\ sched_cfg \in [platform_name : {"webchat", "tg"}, kinds : [Stages -> StageKinds]]
    /\ stack = << [stage |-> 1, pc |-> "loop", yields |-> 0, forwards |-> 0] >>
    /\ sched_ev = NoEvent
    /\ stage_status = [i \in Stages |-> "idle"]
    /\ sched_log = NoSchedLog

Top == stack[Len(stack)]
SetTop(f) == [stack EXCEPT ![Len(stack)] = f]

\* AstrMessageEvent.is_stopped
IsStopped(ev) == ev.result = "stop"

\* set_result, stop_event, clear_result, send and send_streaming of the event,
\* as a stage's body calls them; a send that raises leaves _has_send_oper alone.
ApplyEffect(ev, effect) ==
    CASE effect = "set_result" -> [ev EXCEPT !.result = "continue"]
      [] effect = "stop" -> [ev EXCEPT !.result = "stop"]
      [] effect = "clear" -> [ev EXCEPT !.result = "none"]
      [] effect \in {"send", "send_streaming"} -> [ev EXCEPT !.has_send_oper = TRUE]
      [] OTHER -> ev

LogEffect(log, effect) ==
    IF effect \in {"send", "send_streaming"} THEN [log EXCEPT !.sent = TRUE]
    ELSE IF effect = "stop" THEN [log EXCEPT !.stopped = TRUE]
    ELSE log

\* The scheduler saw is_stopped() true while stage i was the current stage.
LogStop(log, i) ==
    [log EXCEPT !.stop_observed_at = IF @ = 0 \/ i < @ THEN i ELSE @]

\* Faulty variant: it goes on to the next stage without waiting for the stage's body.
NotAwaited(f) == [f EXCEPT !.stage = @ + 1]

\* The frame after stage.process(event) is called: the scheduler waits for the
\* coroutine, or for the generator's first item.
Awaited(f) == [f EXCEPT !.pc = "running", !.yields = 0, !.forwards = 0]

\* The for loop of _process_stages takes its next stage and calls its process.
StartStage ==
    /\ SchedFrame
    /\ sched_pc = "run"
    /\ stack # <<>>
    /\ Top.pc = "loop"
    /\ Top.stage <= NumStages
    /\ stack' = SetTop(Awaited(Top))
    /\ stage_status' = [stage_status EXCEPT ![Top.stage] = "running"]
    /\ sched_log' = [sched_log EXCEPT
                       !.late_starts =
                          IF sched_log.stop_observed_at # 0
                                /\ Top.stage > sched_log.stop_observed_at
                          THEN @ \cup {Top.stage} ELSE @,
                       !.started = @ \cup {Top.stage},
                       !.restarted = IF Top.stage \in sched_log.started
                                     THEN @ \cup {Top.stage} ELSE @]
    /\ UNCHANGED <<sched_pc, sched_cfg, sched_ev>>

\* A coroutine stage completes: a stopped event breaks the for loop.
CoroutineReturn(effect) ==
    /\ SchedFrame
    /\ sched_pc = "run"
    /\ stack # <<>>
    /\ Top.pc = "running"
    /\ sched_cfg.kinds[Top.stage] = "coroutine"
    /\ sched_ev' = ApplyEffect(sched_ev, effect)
    /\ stage_status' = [stage_status EXCEPT ![Top.stage] = "done"]
    /\ IF IsStopped(sched_ev')
       THEN /\ stack' = SetTop([Top EXCEPT !.pc = "return"])
            /\ sched_log' = LogStop(LogEffect(sched_log, effect), Top.stage)
       ELSE /\ stack' = SetTop([Top EXCEPT !.pc = "loop", !.stage = @ + 1])
            /\ sched_log' = LogEffect(sched_log, effect)
    /\ UNCHANGED <<sched_pc, sched_cfg>>

\* A generator stage ends (its async for is exhausted): the for loop goes on
\* with the next stage.
GeneratorReturn(effect) ==
    /\ SchedFrame
    /\ sched_pc = "run"
    /\ stack # <<>>
    /\ Top.pc = "running"
    /\ sched_cfg.kinds[Top.stage] = "generator"
    /\ sched_ev' = ApplyEffect(sched_ev, effect)
    /\ stage_status' = [stage_status EXCEPT ![Top.stage] = "done"]
    /\ stack' = SetTop([Top EXCEPT !.pc = "loop", !.stage = @ + 1])
    /\ sched_log' = LogEffect(sched_log, effect)
    /\ UNCHANGED <<sched_pc, sched_cfg>>

\* Faulty variant: it runs the later stages for the first item of a generator only.
ForwardOnFirstYieldOnly(f) == f.forwards = 0

\* The body of the async for runs the later stages for every item the
\* generator yields.
ForwardOnYield(f) == TRUE

\* A generator stage yields.  With the event stopped the async for is left
\* (break) and the for loop goes on with the next stage; otherwise
\* _process_stages(event, i + 1) is entered.
GeneratorYield(effect) ==
    /\ SchedFrame
    /\ sched_pc = "run"
    /\ stack # <<>>
    /\ Top.pc = "running"
    /\ sched_cfg.kinds[Top.stage] = "generator"
    /\ Top.yields < MaxYields
    /\ sched_ev' = ApplyEffect(sched_ev, effect)
    /\ IF IsStopped(sched_ev')
       THEN /\ stack' = SetTop([Top EXCEPT !.pc = "loop", !.stage = @ + 1])
            /\ stage_status' = [stage_status EXCEPT ![Top.stage] = "abandoned"]
            /\ sched_log' = LogStop(LogEffect(sched_log, effect), Top.stage)
       ELSE /\ stage_status' = [stage_status EXCEPT ![Top.stage] = "suspended"]
            /\ sched_log' = [LogEffect(sched_log, effect) EXCEPT
                                !.second_yield = @ \/ Top.yields > 0]
            /\ IF ForwardOnYield(Top)
               THEN stack' = Append(SetTop([Top EXCEPT !.pc = "forward",
                                                       !.yields = @ + 1,
                                                       !.forwards = @ + 1]),
                                    [stage |-> Top.stage + 1, pc |-> "loop",
                                     yields |-> 0, forwards |-> 0])
               ELSE stack' = SetTop([Top EXCEPT !.pc = "resume", !.yields = @ + 1])
    /\ UNCHANGED <<sched_pc, sched_cfg>>

\* A stage's body raises: the exception leaves every _process_stages frame and
\* execute.
StageRaise ==
    /\ SchedFrame
    /\ sched_pc = "run"
    /\ stack # <<>>
    /\ Top.pc = "running"
    /\ stack' = <<>>
    /\ sched_pc' = "failed"
    /\ stage_status' = [stage_status EXCEPT ![Top.stage] = "done"]
    /\ UNCHANGED <<sched_cfg, sched_ev, sched_log>>

\* A nested _process_stages returns (its for loop ended or was left) to the
\* async for of the suspended stage below it.
ForwardReturn ==
    /\ SchedFrame
    /\ sched_pc = "run"
    /\ Len(stack) > 1
    /\ \/ Top.pc = "return"
       \/ Top.pc = "loop" /\ Top.stage > NumStages
    /\ stack' = [Front(stack) EXCEPT ![Len(stack) - 1].pc = "resume"]
    /\ UNCHANGED <<sched_pc, sched_cfg, sched_ev, stage_status, sched_log>>

\* After the later stages: with the event stopped the async for is left and
\* the for loop goes on with the next stage; otherwise the generator is
\* resumed.
AfterForward ==
    /\ SchedFrame
    /\ sched_pc = "run"
    /\ stack # <<>>
    /\ Top.pc = "resume"
    /\ IF IsStopped(sched_ev)
       THEN /\ stack' = SetTop([Top EXCEPT !.pc = "loop", !.stage = @ + 1])
            /\ stage_status' = [stage_status EXCEPT ![Top.stage] = "abandoned"]
            /\ sched_log' = LogStop(sched_log, Top.stage)
       ELSE /\ stack' = SetTop([Top EXCEPT !.pc = "running"])
            /\ stage_status' = [stage_status EXCEPT ![Top.stage] = "running"]
            /\ UNCHANGED sched_log
    /\ UNCHANGED <<sched_pc, sched_cfg, sched_ev>>

\* Faulty variant: it sends the final empty message on every platform.
NeedsFinalSendAnyPlatform(ev, platform_name) == ~ev.has_send_oper

\* The condition of the final empty send of execute.
NeedsFinalSend(ev, platform_name) == ~ev.has_send_oper /\ platform_name = "webchat"

\* The outermost _process_stages returns to execute, which sends the final
\* empty message when no send happened on webchat.
ExecuteEnd ==
    /\ SchedFrame
    /\ sched_pc = "run"
    /\ Len(stack) = 1
    /\ \/ Top.pc = "return"
       \/ Top.pc = "loop" /\ Top.stage > NumStages
    /\ stack' = <<>>
    /\ sched_pc' = "done"
    /\ IF NeedsFinalSend(sched_ev, sched_cfg.platform_name)
       THEN /\ sched_ev' = [sched_ev EXCEPT !.has_send_oper = TRUE]
            /\ sched_log' = [sched_log EXCEPT !.final_sends = @ + 1]
       ELSE UNCHANGED <<sched_ev, sched_log>>
    /\ UNCHANGED <<sched_cfg, stage_status>>

SchedNext ==
    \/ StartStage
    \/ \E effect \in StageEffects : CoroutineReturn(effect)
    \/ \E effect \in StageEffects : GeneratorReturn(effect)
    \/ \E effect \in StageEffects : GeneratorYield(effect)
    \/ StageRaise
    \/ ForwardReturn
    \/ AfterForward
    \/ ExecuteEnd

\* ============================================================ respond stage
\* One invocation of RespondStage.process for an event of platform tg whose
\* result was set by the earlier stages.  A component is its type and the
\* field its validator reads: the text of a Plain, the qq of an At (its name
\* is empty), the id of a Reply (its sender_id is set).
Components ==
    [type : {"Plain"}, value : {" ", "hi"}]
        \cup [type : {"At"}, value : {"", "123"}]
        \cup [type : {"Reply"}, value : {"m1"}]

RECURSIVE ChainsUpTo(_)
ChainsUpTo(n) ==
    IF n = 0 THEN {<<>>}
    ELSE LET shorter == ChainsUpTo(n - 1) IN
         shorter \cup {Append(c, x) : c \in {s \in shorter : Len(s) = n - 1},
                                      x \in Components}

\* RespondStage._component_validators: text.strip() of " " is empty.
ComponentValidator(comp) ==
    CASE comp.type = "Plain" -> comp.value \notin {"", " "}
      [] comp.type = "At" -> comp.value # ""
      [] comp.type = "Reply" -> comp.value # ""

\* RespondStage._is_empty_message_chain
IsEmptyMessageChain(chain) ==
    IF chain = <<>> THEN TRUE
    ELSE \A i \in 1..Len(chain) : ~ComponentValidator(chain[i])

NoRespResult == [set |-> FALSE, stopped |-> FALSE, content_type |-> "none", chain |-> <<>>]

RespIdle ==
    /\ resp_pc = "off"
    /\ resp_cfg = [enable_seg |-> FALSE, only_llm_result |-> FALSE,
                   reply_with_mention |-> FALSE, reply_with_quote |-> FALSE]
    /\ resp_in = NoRespResult
    /\ resp_result = NoRespResult
    /\ decorated_comps = <<>>
    /\ seg_idx = 0
    /\ resp_hook_idx = 0
    /\ resp_sent = <<>>
    /\ resp_invoked = {}
    /\ resp_hook_raised = FALSE

\* The results the stage can be entered with: none, a streaming result or its
\* finish marker (their chains are empty), or a general or LLM result with any
\* chain.  The segmentation settings only vary with segmented reply enabled.
RespInit ==
    /\ resp_pc = "start"
    /\ resp_cfg \in [enable_seg : BOOLEAN, only_llm_result : BOOLEAN,
                     reply_with_mention : BOOLEAN, reply_with_quote : BOOLEAN]
    /\ ~resp_cfg.enable_seg =>
          ~resp_cfg.only_llm_result /\ resp_cfg.reply_with_mention
             /\ resp_cfg.reply_with_quote
    /\ \/ resp_in = NoRespResult
       \/ \E t \in {"STREAMING_RESULT", "STREAMING_FINISH"} :
             resp_in = [set |-> TRUE, stopped |-> FALSE, content_type |-> t,
                        chain |-> <<>>]
       \/ \E t \in {"general", "LLM_RESULT"}, c \in ChainsUpTo(MaxComps) :
             resp_in = [set |-> TRUE, stopped |-> FALSE, content_type |-> t,
                        chain |-> c]
    /\ resp_result = resp_in
    /\ decorated_comps = <<>>
    /\ seg_idx = 0
    /\ resp_hook_idx = 0
    /\ resp_sent = <<>>
    /\ resp_invoked = {}
    /\ resp_hook_raised = FALSE

\* The handlers and plugins of a respond run: plugin B is disabled for tg.
RespRegInit ==
    /\ handlers = StageHandlers
    /\ star_handlers_map = {handlers[i].handler : i \in 1..Len(handlers)}
    /\ star_map = [m \in Plugins |->
                     IF m = "pluginB"
                     THEN [DefaultStar EXCEPT !.supported_platforms["tg"] = "disabled"]
                     ELSE DefaultStar]

\* The condition of the segmented reply (stage.py lines 178-181).
SegmentedReply(cfg, r) ==
    cfg.enable_seg
       /\ ((cfg.only_llm_result /\ r.content_type = "LLM_RESULT") \/ ~cfg.only_llm_result)

HasType(chain, type) == \E i \in 1..Len(chain) : chain[i].type = type
FirstOfType(chain, type) ==
    CHOOSE i \in 1..Len(chain) :
        chain[i].type = type /\ \A j \in 1..(i - 1) : chain[j].type # type

\* The first component of a type moves from the chain to the decorations when
\* its setting is on (stage.py lines 183-194).
Extract(state, enabled, type) ==
    IF enabled /\ HasType(state.chain, type)
    THEN [decorated |-> Append(state.decorated, state.chain[FirstOfType(state.chain, type)]),
          chain |-> RemoveAt(state.chain, FirstOfType(state.chain, type))]
    ELSE state

Decorate(cfg, chain) ==
    Extract(Extract([decorated |-> <<>>, chain |-> chain],
                    cfg.reply_with_mention, "At"),
            cfg.reply_with_quote, "Reply")

\* Faulty variant: it sends each segment without the decorations.
SegmentBare(decorated, comp) == <<comp>>

\* MessageChain([*decorated_comps, comp])
Segment(decorated, comp) == decorated \o <<comp>>

\* Faulty variant: a streaming-final result is treated like any other.
NothingToSendIfUnset(r) == ~r.set

\* The early returns of process (stage.py lines 141-145): no result, or one
\* of kind STREAMING_FINISH.
NothingToSend(r) == ~r.set \/ r.content_type = "STREAMING_FINISH"

\* process up to the first send: the early returns, the streaming send, the
\* emptiness check, and the choice between the segmented and the whole send.
RespStart ==
    /\ RespFrame
    /\ resp_pc = "start"
    /\ resp_hook_idx' = 1
    /\ CASE NothingToSend(resp_result) ->
              /\ resp_pc' = "done"
              /\ UNCHANGED <<resp_result, decorated_comps, seg_idx, resp_sent>>
         [] resp_result.set /\ resp_result.content_type = "STREAMING_RESULT" ->
              /\ resp_pc' = "done"
              /\ resp_sent' = Append(resp_sent, [how |-> "send_streaming",
                                                 chain |-> <<>>, ok |-> TRUE])
              /\ UNCHANGED <<resp_result, decorated_comps, seg_idx>>
         [] OTHER ->
              IF Len(resp_result.chain) > 0
              THEN IF IsEmptyMessageChain(resp_result.chain)
                   THEN /\ resp_result' = StopEvent(ClearResult(resp_result))
                        /\ resp_pc' = "done"
                        /\ UNCHANGED <<decorated_comps, seg_idx, resp_sent>>
                   ELSE IF SegmentedReply(resp_cfg, resp_result)
                   THEN LET d == Decorate(resp_cfg, resp_result.chain) IN
                        /\ decorated_comps' = d.decorated
                        /\ resp_result' = [resp_result EXCEPT !.chain = d.chain]
                        /\ seg_idx' = 1
                        /\ resp_pc' = IF d.chain = <<>> THEN "hooks" ELSE "seg"
                        /\ UNCHANGED resp_sent
                   ELSE /\ resp_pc' = "send"
                        /\ UNCHANGED <<resp_result, decorated_comps, seg_idx, resp_sent>>
              ELSE /\ resp_pc' = "hooks"
                   /\ UNCHANGED <<resp_result, decorated_comps, seg_idx, resp_sent>>
    /\ UNCHANGED <<resp_cfg, resp_in, resp_invoked, resp_hook_raised>>

\* One iteration of the segmented reply: the component is sent behind the
\* decorations; a send that raises ends the loop.
SegSend(ok) ==
    /\ RespFrame
    /\ resp_pc = "seg"
    /\ seg_idx <= Len(resp_result.chain)
    /\ resp_sent' = Append(resp_sent,
                           [how |-> "send",
                            chain |-> Segment(decorated_comps, resp_result.chain[seg_idx]),
                            ok |-> ok])
    /\ seg_idx' = seg_idx + 1
    /\ resp_pc' = IF ok /\ seg_idx < Len(resp_result.chain) THEN "seg" ELSE "hooks"
    /\ UNCHANGED <<resp_cfg, resp_in, resp_result, decorated_comps, resp_hook_idx,
                   resp_invoked, resp_hook_raised>>

\* The whole result is sent as one message; a send that raises is logged.
WholeSend(ok) ==
    /\ RespFrame
    /\ resp_pc = "send"
    /\ resp_sent' = Append(resp_sent, [how |-> "send", chain |-> resp_result.chain,
                                       ok |-> ok])
    /\ resp_pc' = "hooks"
    /\ UNCHANGED <<resp_cfg, resp_in, resp_result, decorated_comps, seg_idx,
                   resp_hook_idx, resp_invoked, resp_hook_raised>>

\* The handlers of the on_after_message_sent hook (stage.py lines 215-217).
OnAfterMessageSentHandlers ==
    GetHandlersByEventType("OnAfterMessageSentEvent", TRUE, "tg")

\* One iteration of the on_after_message_sent loop: the handler runs (an
\* exception it raises is logged), and a stopped event ends the stage.
OnAfterMessageSentStep(beh) ==
    /\ RespFrame
    /\ resp_pc = "hooks"
    /\ resp_hook_idx <= Len(OnAfterMessageSentHandlers)
    /\ resp_invoked' = resp_invoked \cup
          {Invoke("on_after_message_sent", OnAfterMessageSentHandlers[resp_hook_idx])}
    /\ resp_hook_raised' = (beh = "raise")
    /\ resp_result' = IF beh = "stop" THEN StopEvent(resp_result) ELSE resp_result
    /\ IF LoopGoesOn(beh, resp_result'.set /\ resp_result'.stopped)
       THEN resp_pc' = resp_pc /\ resp_hook_idx' = resp_hook_idx + 1
       ELSE resp_pc' = "done" /\ resp_hook_idx' = resp_hook_idx
    /\ UNCHANGED <<resp_cfg, resp_in, decorated_comps, seg_idx, resp_sent>>

\* After the hook loop the result is cleared.
RespEnd ==
    /\ RespFrame
    /\ resp_pc = "hooks"
    /\ resp_hook_idx > Len(OnAfterMessageSentHandlers)
    /\ resp_result' = ClearResult(resp_result)
    /\ resp_pc' = "done"
    /\ resp_hook_raised' = FALSE
    /\ UNCHANGED <<resp_cfg, resp_in, decorated_comps, seg_idx, resp_hook_idx,
                   resp_sent, resp_invoked>>

RespNext ==
    \/ RespStart
    \/ \E ok \in BOOLEAN : SegSend(ok)
    \/ \E ok \in BOOLEAN : WholeSend(ok)
    \/ \E beh \in HookBehaviours : OnAfterMessageSentStep(beh)
    \/ RespEnd

\* ================================================================ lifecycle
\* AstrBotCoreLifecycle.stop and PluginManager.reload, next to the bus.  The
\* tasks of curr_tasks are the wrappers of the dispatcher and of the tasks the
\* plugins registered; a pipeline task is known to nobody but the event loop.
LcFrame == UNCHANGED <<llmVars, schedVars, respVars, mcpVars, convVars, fnVars, run, extVars>>

\* Task.cancel on a wrapper that awaits its task: the request goes to the
\* awaited task, which gets it at its next step.
Cancel(st) == IF st = "running" THEN "cancelling" ELSE st

\* A task a plugin registered ends by itself, or raises.
ExtraTaskEnd(i, how) ==
    /\ LcFrame
    /\ extra_tasks[i] = "running"
    /\ extra_tasks' = [extra_tasks EXCEPT ![i] = how]
    /\ UNCHANGED <<event_queue, enqueued, tasks, dispatcher, lc_pc, reload_pc, lc_log,
                   regVars>>

\* stop, first loop: every task of curr_tasks is cancelled.
StopCancel ==
    /\ LcFrame
    /\ lc_pc = "running"
    /\ lc_pc' = "terminating"
    /\ dispatcher' = Cancel(dispatcher)
    /\ extra_tasks' = [i \in ExtraTasks |-> Cancel(extra_tasks[i])]
    /\ UNCHANGED <<event_queue, enqueued, tasks, reload_pc, lc_log, regVars>>

\* The dispatcher gets the CancelledError in queue.get and exits; its wrapper
\* passes over it.
DispatcherCancelled ==
    /\ LcFrame
    /\ dispatcher = "cancelling"
    /\ dispatcher' = "cancelled"
    /\ UNCHANGED <<event_queue, enqueued, tasks, extra_tasks, lc_pc, reload_pc, lc_log,
                   regVars>>

\* A registered task gets the CancelledError and exits.
ExtraTaskCancelled(i) ==
    /\ LcFrame
    /\ extra_tasks[i] = "cancelling"
    /\ extra_tasks' = [extra_tasks EXCEPT ![i] = "cancelled"]
    /\ UNCHANGED <<event_queue, enqueued, tasks, dispatcher, lc_pc, reload_pc, lc_log,
                   regVars>>

\* stop, middle: the plugins, the providers and the platform adapters are
\* terminated and the dashboard is told to shut down.
StopTerminate ==
    /\ LcFrame
    /\ lc_pc = "terminating"
    /\ lc_pc' = "awaiting"
    /\ UNCHANGED <<event_queue, enqueued, tasks, dispatcher, extra_tasks, reload_pc,
                   lc_log, regVars>>

Exited(st) == st \in {"done", "failed", "cancelled"}

\* stop, last loop: it has awaited every task of curr_tasks.
StopDone ==
    /\ LcFrame
    /\ lc_pc = "awaiting"
    /\ Exited(dispatcher)
    /\ \A i \in ExtraTasks : Exited(extra_tasks[i])
    /\ lc_pc' = "stopped"
    /\ UNCHANGED <<event_queue, enqueued, tasks, dispatcher, extra_tasks, reload_pc,
                   lc_log, regVars>>

RunInFlight == \E t \in 1..Len(tasks) : tasks[t].state = "running"

\* reload, first half (reload_plugins calls it as soon as the request
\* arrives): the plugins are terminated and unbound, the handler registry and
\* the plugin map are cleared.
ReloadClear ==
    /\ LcFrame
    /\ reload_pc = "idle"
    /\ lc_pc = "running"
    /\ lc_log.reloads < MaxReloads
    /\ handlers' = <<>>
    /\ star_handlers_map' = {}
    /\ star_map' = [m \in Plugins |-> [DefaultStar EXCEPT !.present = FALSE]]
    /\ reload_pc' = "cleared"
    /\ lc_log' = [lc_log EXCEPT !.mutated_in_flight = @ \/ RunInFlight,
                                !.reloads = @ + 1]
    /\ UNCHANGED <<event_queue, enqueued, tasks, dispatcher, extra_tasks, lc_pc>>

\* reload, second half: load registers the plugins and their handlers again.
ReloadLoad ==
    /\ LcFrame
    /\ reload_pc = "cleared"
    /\ handlers' = StageHandlers
    /\ star_handlers_map' = {StageHandlers[i].handler : i \in 1..Len(StageHandlers)}
    /\ star_map' = [m \in Plugins |-> DefaultStar]
    /\ reload_pc' = "idle"
    /\ lc_log' = [lc_log EXCEPT !.mutated_in_flight = @ \/ RunInFlight]
    /\ UNCHANGED <<event_queue, enqueued, tasks, dispatcher, extra_tasks, lc_pc>>

LifecycleInit ==
    /\ BusInit
    /\ handlers = StageHandlers
    /\ star_handlers_map = {StageHandlers[i].handler : i \in 1..Len(StageHandlers)}
    /\ star_map = [m \in Plugins |-> DefaultStar]

LifecycleNext ==
    \/ BusNext
    \/ \E i \in ExtraTasks : ExtraTaskEnd(i, "done")
    \/ \E i \in ExtraTasks : ExtraTaskEnd(i, "failed")
    \/ StopCancel
    \/ DispatcherCancelled
    \/ \E i \in ExtraTasks : ExtraTaskCancelled(i)
    \/ StopTerminate
    \/ StopDone
    \/ ReloadClear
    \/ ReloadLoad

\* ==================================================== conversation manager
\* ConversationManager: the current conversation of each session, and the
\* conversations of the database.  A conversation id is a fresh uuid; here the
\* ids are 1, 2, ... in creation order, and NoCid stands for None.
Sessions == {"u1", "u2"}
NoCid == 0
Cids == 1..MaxConversations

NoCall == [op |-> "none", session |-> "none", cid |-> NoCid, created |-> 0,
           conversations |-> {}, session_conversations |-> [u \in Sessions |-> NoCid]]

ConvInit ==
    /\ session_conversations = [u \in Sessions |-> NoCid]
    /\ conversations = {}
    /\ conv_log = NoCall

Call(op, u, cid) ==
    [op |-> op, session |-> u, cid |-> cid,
     created |-> IF op = "new" THEN conv_log.created + 1 ELSE conv_log.created,
     conversations |-> conversations, session_conversations |-> session_conversations]

\* new_conversation
NewConversation(u) ==
    /\ ConvFrame
    /\ conv_log.created < MaxConversations
    /\ LET conversation_id == conv_log.created + 1 IN
          /\ conversations' = conversations \cup {<<u, conversation_id>>}
          /\ session_conversations' = [session_conversations EXCEPT ![u] = conversation_id]
    /\ conv_log' = Call("new", u, NoCid)

\* switch_conversation
SwitchConversation(u, conversation_id) ==
    /\ ConvFrame
    /\ <<u, conversation_id>> \in conversations
    /\ session_conversations' = [session_conversations EXCEPT ![u] = conversation_id]
    /\ conv_log' = Call("switch", u, conversation_id)
    /\ UNCHANGED conversations

\* delete_conversation(unified_msg_origin, conversation_id): its first
\* statement assigns the session's current conversation to conversation_id.
DeleteConversation(u, cid) ==
    /\ ConvFrame
    /\ cid = NoCid \/ <<u, cid>> \in conversations
    /\ LET conversation_id == session_conversations[u] IN
          IF conversation_id # NoCid
          THEN /\ conversations' = conversations \ {<<u, conversation_id>>}
               /\ session_conversations' = [session_conversations EXCEPT ![u] = NoCid]
          ELSE UNCHANGED <<conversations, session_conversations>>
    /\ conv_log' = Call("delete", u, cid)

ConvNext ==
    \/ \E u \in Sessions : NewConversation(u)
    \/ \E u \in Sessions, c \in Cids : SwitchConversation(u, c)
    \/ \E u \in Sessions, c \in Cids \cup {NoCid} : DeleteConversation(u, c)

\* ====================================================== remote tool clients
\* FuncCall: the control task mcp_service_selector, one client task
\* (_init_mcp_client_task_wrapper) per init command it has processed, and
\* terminate.  Client tasks, and the MCPClient each of them creates, are
\* numbered in the order the control task created them.
Servers == {"s1", "s2"}

Commands ==
    [type : {"init", "terminate"}, name : Servers]
        \cup {[type |-> "terminate", name |-> "all"]}

Clients == 1..MaxClients
\* No client: a name without an entry in mcp_client_event; as the task that
\* runs a cleanup, the caller of FuncCall.terminate.
NoClient == 0

\* What list_tools returns to a client: the tool names of its server.
Listings == {{"t1"}, {"t1", "t2"}}

NoTask == [pc |-> "none", name |-> "none"]

NoMcpLog ==
    [posted |-> 0, inits |-> 0, created |-> 0, affected |-> {}, shutdown |-> FALSE,
     connected |-> <<>>, listed |-> [i \in Clients |-> {}],
     released_by |-> [i \in Clients |-> "nobody"]]

McpInit ==
    /\ mcp_service_queue = <<>>
    /\ mcp_client_dict = <<>>
    /\ mcp_client_event = [n \in Servers |-> NoClient]
    /\ mcp_event_set = [i \in Clients |-> FALSE]
    /\ mcp_task = [i \in Clients |-> NoTask]
    /\ mcp_func_list = {}
    /\ mcp_log = NoMcpLog

\* The client tasks that exist: created and not exited.
HasClient(i) == mcp_task[i].pc \notin {"none", "exited"}

Keys(dict) == {dict[k].name : k \in 1..Len(dict)}
ClientAt(dict, n) == (CHOOSE k \in 1..Len(dict) : dict[k].name = n)

\* FuncTool(origin="mcp", mcp_server_name=n, mcp_client=i) for each listed tool.
FuncTools(n, i, listing) ==
    {[name |-> t, server |-> n, client |-> i] : t \in listing}

\* External code posts a command: mcp_service_queue.put_nowait(data).
McpPost(cmd) ==
    /\ McpFrame
    /\ mcp_log.posted < MaxCommands
    /\ cmd.type = "init" => mcp_log.inits < MaxClients
    /\ mcp_service_queue' = Append(mcp_service_queue, cmd)
    /\ mcp_log' = [mcp_log EXCEPT !.posted = @ + 1,
                                  !.inits = IF cmd.type = "init" THEN @ + 1 ELSE @]
    /\ UNCHANGED <<mcp_client_dict, mcp_client_event, mcp_event_set, mcp_task,
                   mcp_func_list>>

\* The names whose stop event a terminate command sets: the given name, or,
\* for terminate-all, the keys of mcp_client_dict; in both cases only those
\* that have an entry in mcp_client_event.
Signalled(cmd) ==
    {n \in (IF cmd.name = "all" THEN Keys(mcp_client_dict) ELSE {cmd.name}) :
        mcp_client_event[n] # NoClient}

\* One iteration of mcp_service_selector.
SelectorStep ==
    /\ McpFrame
    /\ mcp_service_queue # <<>>
    /\ LET data == Head(mcp_service_queue)
           i == mcp_log.created + 1
       IN
        /\ mcp_service_queue' = Tail(mcp_service_queue)
        /\ IF data.type = "init"
           THEN /\ mcp_task' = [mcp_task EXCEPT
                                   ![i] = [pc |-> "created", name |-> data.name]]
                /\ mcp_client_event' = [mcp_client_event EXCEPT ![data.name] = i]
                /\ mcp_log' = [mcp_log EXCEPT !.created = i]
                /\ UNCHANGED <<mcp_func_list, mcp_event_set>>
           ELSE /\ mcp_event_set' =
                      [j \in Clients |->
                          \/ mcp_event_set[j]
                          \/ \E n \in Signalled(data) : mcp_client_event[n] = j]
                /\ mcp_client_event' =
                      [n \in Servers |-> IF n \in Signalled(data)
                                         THEN NoClient ELSE mcp_client_event[n]]
                /\ mcp_func_list' =
                      IF data.name = "all" THEN {}
                      ELSE IF mcp_client_event[data.name] # NoClient
                      THEN {t \in mcp_func_list : t.server # data.name}
                      ELSE mcp_func_list
                /\ mcp_log' = [mcp_log EXCEPT !.affected =
                                  @ \cup {j \in Clients :
                                             /\ HasClient(j)
                                             /\ data.name \in {"all", mcp_task[j].name}}]
                /\ UNCHANGED mcp_task
    /\ UNCHANGED mcp_client_dict

Without(dict, n) == SelectSeq(dict, LAMBDA x : x.name # n)

\* _terminate_mcp_client(n) run by client task `by`, or by the caller of
\* FuncCall.terminate when `by` is NoClient: the client that mcp_client_dict
\* holds for n is cleaned up and deleted, and the tools of n leave the tool
\* list; nothing happens when n is not a key.
Released(log, n, by) ==
    IF n \in Keys(mcp_client_dict)
    THEN LET j == mcp_client_dict[ClientAt(mcp_client_dict, n)].client
         IN [log EXCEPT !.released_by[j] =
                IF by = j THEN "own task"
                ELSE IF by = NoClient THEN "shutdown"
                ELSE "another client task"]
    ELSE log

Terminated(list, n) ==
    IF n \in Keys(mcp_client_dict) THEN {t \in list : t.server # n} ELSE list

\* Faulty variant: the tools a prior instance registered stay in the list.
KeepPrevious(list, n) == list

\* _init_mcp_client, before the new tools are appended: the tools of the
\* server are removed from the tool list.
RemovePrevious(list, n) == {t \in list : t.server # n}

\* The client task starts: _init_mcp_client puts a new client into
\* mcp_client_dict (after closing an old one of the same name) and awaits
\* connect_to_server.
ClientStart(i) ==
    /\ McpFrame
    /\ mcp_task[i].pc = "created"
    /\ LET n == mcp_task[i].name IN
        /\ mcp_client_dict' =
              Append(Without(mcp_client_dict, n), [name |-> n, client |-> i])
        /\ mcp_func_list' = Terminated(mcp_func_list, n)
        /\ mcp_log' = Released(mcp_log, n, i)
    /\ mcp_task' = [mcp_task EXCEPT ![i].pc = "connecting"]
    /\ UNCHANGED <<mcp_service_queue, mcp_client_event, mcp_event_set>>

\* The connection and the tool listing end: with success the tools of the
\* server are registered; with an exception the client that mcp_client_dict
\* holds for the name is cleaned up and removed.  Either way the client task
\* goes on to wait for its stop event.
ClientConnected(i, ok, listing) ==
    /\ McpFrame
    /\ mcp_task[i].pc = "connecting"
    /\ LET n == mcp_task[i].name IN
        IF ok
        THEN /\ mcp_func_list' =
                   RemovePrevious(mcp_func_list, n) \cup FuncTools(n, i, listing)
             /\ mcp_log' = [mcp_log EXCEPT !.listed[i] = listing,
                                           !.connected = Append(@, i)]
             /\ UNCHANGED mcp_client_dict
        ELSE /\ mcp_client_dict' = Without(mcp_client_dict, n)
             /\ mcp_func_list' = Terminated(mcp_func_list, n)
             /\ mcp_log' = Released(mcp_log, n, i)
    /\ mcp_task' = [mcp_task EXCEPT ![i].pc = "waiting"]
    /\ UNCHANGED <<mcp_service_queue, mcp_client_event, mcp_event_set>>

\* event.wait() returns: the client task runs _terminate_mcp_client and ends.
ClientStopped(i) ==
    /\ McpFrame
    /\ mcp_task[i].pc = "waiting"
    /\ mcp_event_set[i]
    /\ LET n == mcp_task[i].name IN
        /\ mcp_client_dict' = Without(mcp_client_dict, n)
        /\ mcp_func_list' = Terminated(mcp_func_list, n)
        /\ mcp_log' = Released(mcp_log, n, i)
    /\ mcp_task' = [mcp_task EXCEPT ![i].pc = "exited"]
    /\ UNCHANGED <<mcp_service_queue, mcp_client_event, mcp_event_set>>

\* FuncCall.terminate at shutdown: it iterates mcp_client_dict.keys() and
\* _terminate_mcp_client deletes the key it is at, so the iteration raises
\* RuntimeError (dictionary changed size) after the first client.
FuncCallTerminate ==
    /\ McpFrame
    /\ ~mcp_log.shutdown
    /\ IF mcp_client_dict = <<>>
       THEN /\ UNCHANGED <<mcp_client_dict, mcp_func_list>>
            /\ mcp_log' = [mcp_log EXCEPT
                              !.shutdown = TRUE,
                              !.affected = @ \cup {j \in Clients : HasClient(j)}]
       ELSE LET n == Head(mcp_client_dict).name IN
            /\ mcp_client_dict' = Tail(mcp_client_dict)
            /\ mcp_func_list' = Terminated(mcp_func_list, n)
            /\ mcp_log' = [Released(mcp_log, n, NoClient) EXCEPT
                              !.shutdown = TRUE,
                              !.affected = @ \cup {j \in Clients : HasClient(j)}]
    /\ UNCHANGED <<mcp_service_queue, mcp_client_event, mcp_event_set, mcp_task>>

McpNext ==
    \/ \E cmd \in Commands : McpPost(cmd)
    \/ SelectorStep
    \/ \E i \in Clients : ClientStart(i)
    \/ \E i \in Clients, listing \in Listings : ClientConnected(i, TRUE, listing)
    \/ \E i \in Clients : ClientConnected(i, FALSE, {})
    \/ \E i \in Clients : ClientStopped(i)
    \/ FuncCallTerminate

\* ========================================= a pipeline run in streaming mode
\* One run of the stages Process and Respond for an event whose message goes
\* to the LLM stage in streaming mode.  At each suspension of the process
\* stage the scheduler runs the respond stage (unless the event is stopped);
\* when the process stage is over, the loop of the scheduler goes on to the
\* respond stage.  The respond stage that holds the stream consumes it: the
\* call loop of the LLM stage runs inside the streaming send.
ToChain(texts) == [i \in 1..Len(texts) |-> [type |-> "Plain", value |-> texts[i]]]
FromChain(chain) == [i \in 1..Len(chain) |-> chain[i].value]

\* The event result as the respond stage reads it; a streaming result holds
\* the stream and an empty chain.
EventResult(r) ==
    [set |-> r.set, stopped |-> r.stopped, content_type |-> r.content_type,
     chain |-> IF r.content_type = "STREAMING_RESULT" THEN <<>> ELSE ToChain(r.chain)]

\* The result a tool handler set, kept in the extra tool_call_result.
ToolResultText == "tool result"

StreamInit ==
    /\ LLMStartState({"text"}) /\ llm_cfg.streaming_response
    /\ LLMRegInitAllEnabled
    /\ resp_pc = "off"
    /\ \E seg \in BOOLEAN :
          resp_cfg = [enable_seg |-> seg, only_llm_result |-> FALSE,
                      reply_with_mention |-> TRUE, reply_with_quote |-> TRUE]
    /\ resp_in = NoRespResult
    /\ resp_result = NoRespResult
    /\ decorated_comps = <<>>
    /\ seg_idx = 0
    /\ resp_hook_idx = 0
    /\ resp_sent = <<>>
    /\ resp_invoked = {}
    /\ resp_hook_raised = FALSE
    /\ run = [pc |-> "process", resume |-> "none", sent |-> <<>>]

RunFrame == UNCHANGED <<busVars, regVars, schedVars, mcpVars, convVars, fnVars, extVars>>
LLMLocals == <<llm_pc, llm_cfg, req, llm_response, tool_idx, tool_call_result, hook_idx,
               store_history, llm_log>>

\* RespondStage.process is called with the event.
BeginVisit(r) ==
    /\ resp_pc' = "start"
    /\ resp_in' = EventResult(r)
    /\ resp_result' = EventResult(r)
    /\ decorated_comps' = <<>>
    /\ seg_idx' = 0
    /\ resp_hook_idx' = 0
    /\ resp_sent' = <<>>
    /\ resp_invoked' = {}
    /\ resp_hook_raised' = FALSE
    /\ UNCHANGED resp_cfg

\* A suspension of the process stage (scheduler.py lines 41-57): a stopped
\* event ends the loop over the stage, otherwise the later stages run and the
\* stage resumes at `resume`.
Suspend(r, resume) ==
    IF r.stopped
    THEN /\ run' = [run EXCEPT !.pc = "after"]
         /\ UNCHANGED respVars
    ELSE /\ run' = [run EXCEPT !.pc = "visit", !.resume = resume]
         /\ BeginVisit(r)

\* The stream is the result and the stage suspends (llm_request.py 254-260).
YieldStream ==
    /\ run.pc = "process" /\ llm_pc = "call"
    /\ Suspend(ev_result, "after_stream")
    /\ UNCHANGED <<LLMLocals, ev_result>>
    /\ RunFrame

\* process returned before the call loop.
ProcessReturn ==
    /\ run.pc = "process" /\ llm_pc = "done"
    /\ run' = [run EXCEPT !.pc = "after"]
    /\ UNCHANGED <<llmVars, respVars>>
    /\ RunFrame

\* The respond stage holds the stream and is in the streaming send.
Streaming ==
    resp_pc = "start" /\ resp_in.set /\ resp_in.content_type = "STREAMING_RESULT"

\* The LLM stage runs: up to its suspension, and then as the stream.
StageRuns ==
    \/ run.pc = "process" /\ llm_pc \in {"start", "hook_req"}
    \/ run.pc = "visit" /\ Streaming /\ llm_pc \in {"call", "hook_resp", "tools", "save"}

\* The respond stage runs; its streaming send returns when the stream is over.
RespondRuns ==
    /\ run.pc \in {"visit", "last_visit"}
    /\ Streaming => llm_pc \in {"done", "propagated"}

\* RespondStage.process returned: what it did to the event result stays, and
\* the scheduler goes on (a stopped event ends the loop over the stage).
VisitReturn ==
    /\ run.pc \in {"visit", "last_visit"}
    /\ resp_pc = "done"
    /\ ev_result' = IF resp_in.set /\ resp_in.content_type = "STREAMING_RESULT"
                    THEN ev_result
                    ELSE [ev_result EXCEPT !.set = resp_result.set,
                                           !.stopped = resp_result.stopped,
                                           !.content_type = resp_result.content_type,
                                           !.chain = FromChain(resp_result.chain)]
    /\ run' = [run EXCEPT !.sent = @ \o resp_sent,
                          !.pc = IF run.pc = "last_visit" THEN "ended"
                                 ELSE IF ev_result'.stopped THEN "after"
                                 ELSE run.resume]
    /\ resp_pc' = "off"
    /\ resp_in' = NoRespResult
    /\ resp_result' = NoRespResult
    /\ decorated_comps' = <<>>
    /\ seg_idx' = 0
    /\ resp_hook_idx' = 0
    /\ resp_sent' = <<>>
    /\ resp_invoked' = {}
    /\ resp_hook_raised' = FALSE
    /\ UNCHANGED <<resp_cfg, LLMLocals>>
    /\ RunFrame

\* The stage resumes behind the stream (llm_request.py lines 262-266): the
\* result of a tool handler becomes the event result and the stage suspends
\* once more; without one the stage is over.
AfterStream ==
    /\ run.pc = "after_stream"
    /\ IF ev_result.tool_call_result
       THEN /\ ev_result' = [set |-> TRUE, stopped |-> FALSE, content_type |-> "general",
                             chain |-> <<ToolResultText>>, tool_call_result |-> FALSE]
            /\ Suspend(ev_result', "process_end")
       ELSE /\ run' = [run EXCEPT !.pc = "after"]
            /\ UNCHANGED <<ev_result, respVars>>
    /\ UNCHANGED LLMLocals
    /\ RunFrame

\* The stage ends behind its last suspension.
ProcessEnd ==
    /\ run.pc = "process_end"
    /\ run' = [run EXCEPT !.pc = "after"]
    /\ UNCHANGED <<llmVars, respVars>>
    /\ RunFrame

\* The loop of the scheduler goes on to the stage behind Process.
LastVisit ==
    /\ run.pc = "after"
    /\ run' = [run EXCEPT !.pc = "last_visit"]
    /\ BeginVisit(ev_result)
    /\ UNCHANGED llmVars
    /\ RunFrame

StreamNext ==
    \/ StageRuns /\ LLMNext
    \/ RespondRuns /\ RespNext
    \/ YieldStream
    \/ ProcessReturn
    \/ VisitReturn
    \/ AfterStream
    \/ ProcessEnd
    \/ LastVisit

\* ============================================== functions on drawn inputs
\* The entries a stored history can hold, as _process_tool_message_pairs sees
\* them: unmarked entries, and entries marked _tool_call_history (an assistant
\* entry with tool_calls, a tool entry, an assistant entry without tool_calls).
MessageKinds == {"user", "assistant", "tool", "marked_call", "marked_tool",
                 "marked_assistant"}

\* The entry of kind k at position i; its content tells the positions apart.
KindEntry(k, i) ==
    Entry(IF k = "user" THEN "user"
          ELSE IF k \in {"tool", "marked_tool"} THEN "tool" ELSE "assistant",
          IF k = "marked_call" THEN <<i>> ELSE <<>>,
          IF k \in {"tool", "marked_tool"} THEN i ELSE 0,
          ToString(i),
          k \in {"marked_call", "marked_tool", "marked_assistant"},
          FALSE)

PairsIdle ==
    pairs = [pc |-> "idle", messages |-> <<>>, remove_tags |-> FALSE,
             result |-> <<>>, again |-> <<>>]

PairsInit ==
    \E ks \in UNION {[1..n -> MessageKinds] : n \in 0..MaxMessages},
       remove_tags \in BOOLEAN :
        pairs = [pc |-> "input",
                 messages |-> [i \in 1..Len(ks) |-> KindEntry(ks[i], i)],
                 remove_tags |-> remove_tags, result |-> <<>>, again |-> <<>>]

\* _process_tool_message_pairs(messages, remove_tags).
PruneMessages ==
    /\ pairs.pc = "input"
    /\ pairs' = [pairs EXCEPT
                    !.pc = "pruned",
                    !.result = ProcessToolMessagePairs(pairs.messages, 1,
                                                       pairs.remove_tags)]
    /\ UNCHANGED trim
    /\ FnFrame

\* The same function applied to what it returned: a history that was pruned
\* when it was saved is pruned again when it is loaded.
PruneAgain ==
    /\ pairs.pc = "pruned"
    /\ pairs' = [pairs EXCEPT
                    !.pc = "again",
                    !.again = ProcessToolMessagePairs(pairs.result, 1,
                                                      pairs.remove_tags)]
    /\ UNCHANGED trim
    /\ FnFrame

PairsNext == PruneMessages \/ PruneAgain

\* The histories the cut is applied to: up to MaxRounds exchanges, each a user
\* entry and an assistant entry with nothing, one tool round-trip of one
\* entry, or one of two entries between them.
Exchanges ==
    { <<UserEntry("q"), AssistantEntry("a")>>,
      <<UserEntry("q"), AssistantMessageSegment(<<1>>), ToolCallMessageSegment(1, "value"),
        AssistantEntry("a")>>,
      <<UserEntry("q"), AssistantMessageSegment(<<1, 2>>),
        ToolCallMessageSegment(1, "value"), ToolCallMessageSegment(2, "value"),
        AssistantEntry("a")>> }

RECURSIVE HistoriesOf(_)
HistoriesOf(n) ==
    IF n = 0 THEN {<<>>}
    ELSE LET shorter == HistoriesOf(n - 1) IN
         shorter \cup {h \o x : h \in shorter, x \in Exchanges}

Unlimited == -1

TrimIdle ==
    trim = [pc |-> "idle", max_context_length |-> Unlimited, configured |-> 1,
            dequeue_context_length |-> 1, contexts |-> <<>>, result |-> <<>>]

\* The settings max_context_length and dequeue_context_length as configured,
\* and the contexts of a request.
TrimInit ==
    \E max \in {Unlimited} \cup 1..MaxContextLength, d \in 0..(MaxContextLength + 1),
       h \in HistoriesOf(MaxRounds) :
        trim = [pc |-> "configured", max_context_length |-> max, configured |-> d,
                dequeue_context_length |-> d, contexts |-> h, result |-> <<>>]

MinOf(a, b) == IF a < b THEN a ELSE b
MaxOf(a, b) == IF a > b THEN a ELSE b

\* initialize (lines 38-44): min(max(1, configured), max_context_length - 1).
Initialize ==
    /\ trim.pc = "configured"
    /\ trim' = [trim EXCEPT
                   !.pc = "initialized",
                   !.dequeue_context_length =
                      MinOf(MaxOf(1, trim.configured), trim.max_context_length - 1)]
    /\ UNCHANGED pairs
    /\ FnFrame

\* contexts[-k:] of Python: the last k entries for k > 0, everything for k = 0,
\* and the entries behind the first -k ones for k < 0.
LastEntries(contexts, k) ==
    LET n == Len(contexts)
        start == IF k > 0 THEN MaxOf(n - k, 0) ELSE MinOf(-k, n)
    IN SubSeq(contexts, start + 1, n)

\* The entries from the first user entry on; everything when there is none.
FromFirstUser(contexts) ==
    LET users == {i \in 1..Len(contexts) : contexts[i].role = "user"}
    IN IF users = {} THEN contexts
       ELSE SubSeq(contexts, CHOOSE i \in users : \A j \in users : i <= j, Len(contexts))

\* The cut of process (lines 142-154).
TrimContexts ==
    /\ trim.pc = "initialized"
    /\ trim' = [trim EXCEPT
                   !.pc = "trimmed",
                   !.result =
                      IF /\ trim.max_context_length # Unlimited
                         /\ Len(trim.contexts) \div 2 > trim.max_context_length
                      THEN FromFirstUser(LastEntries(trim.contexts,
                              (trim.max_context_length - trim.dequeue_context_length + 1)
                                 * 2))
                      ELSE trim.contexts]
    /\ UNCHANGED pairs
    /\ FnFrame

TrimNext == Initialize \/ TrimContexts

FnIdle == PairsIdle /\ TrimIdle

RunIdle == run = [pc |-> "off", resume |-> "none", sent |-> <<>>]

\* ======================================================= platform settings
\* platform_settings.plugin_enable: platform id -> plugin name -> bool.  A
\* platform is a key or not; under a key, a plugin is a key ("true", "false")
\* or not ("none").
NoPlatformEntry == [present |-> FALSE, plugins |-> [m \in Plugins |-> "none"]]

PlatformEntries ==
    {NoPlatformEntry} \cup
    {[present |-> TRUE, plugins |-> f] : f \in [Plugins -> {"none", "true", "false"}]}

PluginEnableConfigs == [Platforms -> PlatformEntries]

\* `not plugin_enable_config`: the dict is empty.
IsEmptyConfig(cfg) == \A p \in Platforms : ~cfg[p].present

CompatIdle == plugin_enable = [p \in Platforms |-> NoPlatformEntry]

\* StarMetadata.update_platform_compatibility for the plugin called name.
UpdatePlatformCompatibility(star, name, cfg) ==
    IF IsEmptyConfig(cfg) THEN star
    ELSE [star EXCEPT !.supported_platforms =
            [p \in Platforms |->
                IF ~cfg[p].present THEN "unset"
                ELSE IF cfg[p].plugins[name] = "false" THEN "disabled"
                ELSE "enabled"]]

\* PluginRoute.set_plugin_platform_enable: the configuration is replaced and
\* update_all_platform_compatibility updates every plugin.
SetPluginPlatformEnable(cfg) ==
    /\ UNCHANGED <<busVars, llmVars, schedVars, respVars, mcpVars, convVars,
                   fnVars, run, prov, duo>>
    /\ plugin_enable' = cfg
    /\ star_map' = [m \in Plugins |-> UpdatePlatformCompatibility(star_map[m], m, cfg)]
    /\ UNCHANGED <<handlers, star_handlers_map>>

CompatNext == \E cfg \in PluginEnableConfigs : SetPluginPlatformEnable(cfg)

\* ============================================ one text_chat call of a provider
\* ProviderOpenAIOfficial.text_chat, ProviderGoogleGenAI.text_chat with _query,
\* ProviderAnthropic.text_chat, and what the LLM-request stage does with the
\* response.  Every API attempt draws its outcome: a completion, or one of the
\* errors the provider tells apart by their text.
ProviderKinds == {"openai", "gemini", "anthropic"}
ApiKeys == 1..NumKeys

\* max_retries of ProviderOpenAIOfficial.text_chat.
MaxRetries == 10
\* retry of ProviderGoogleGenAI.text_chat.
GeminiRetry == 10
\* retry_cnt of ProviderAnthropic.text_chat.
OverflowRetries == 20
\* Temperatures in tenths: the default of _query, its step after a recitation
\* and the value above which it gives up.
DefaultTemperature == 7
TemperatureStep == 2
TemperatureLimit == 20

Outcomes ==
    [openai |-> {"ok", "429", "invalid_key", "maximum context length", "not a VLM",
                 "no function calling", "unprocessable entity", "other"},
     gemini |-> {"ok", "recitation", "429", "invalid_key", "no developer instruction",
                 "no function calling", "text output only", "other"},
     anthropic |-> {"ok", "maximum context length", "other"}]

\* The history entries h1..hn, oldest first.
HistoryEntry == [i \in 1..MaxHistory |-> IF i = 1 THEN "h1" ELSE IF i = 2 THEN "h2" ELSE "h3"]
RequestContexts == {SubSeq(HistoryEntry, 1, n) : n \in 0..MaxHistory}

ProvStart(kind, contexts, system_prompt, images, tools, key) ==
    [kind |-> kind, pc |-> "query",
     contexts |-> contexts,
     context_query |->
        (IF system_prompt /\ kind # "anthropic" THEN <<"system">> ELSE <<>>)
            \o contexts \o <<"new">>,
     images |-> images, tools |-> tools,
     available |-> ApiKeys, chosen |-> key,
     retry_cnt |-> IF kind = "anthropic" THEN OverflowRetries ELSE 0,
     retrying |-> FALSE,
     system_instruction |-> system_prompt, query_tools |-> tools,
     image_modality |-> TRUE, temperature |-> DefaultTemperature,
     role |-> "none", error |-> "none",
     history |-> <<>>, sent |-> <<>>,
     last |-> "none", failed |-> {}, succeeded |-> FALSE]

ProvIdle ==
    prov = [ProvStart("openai", <<>>, FALSE, FALSE, FALSE, 1) EXCEPT !.pc = "idle"]

ProvInit ==
    \E kind \in ProviderKinds, contexts \in RequestContexts,
       system_prompt \in BOOLEAN, images \in BOOLEAN, tools \in BOOLEAN,
       key \in ApiKeys :
        prov = ProvStart(kind, contexts, system_prompt, images, tools, key)

ProvFrame ==
    UNCHANGED <<busVars, regVars, llmVars, schedVars, respVars, mcpVars, convVars,
                fnVars, run, plugin_enable, duo>>

\* Provider.pop_record: the oldest entry that is not the system prompt leaves
\* the list.
PopRecord(context_query) ==
    LET idx == {i \in 1..Len(context_query) : context_query[i] # "system"} IN
    IF idx = {} THEN context_query
    ELSE LET first == CHOOSE i \in idx : \A j \in idx : i <= j
         IN SubSeq(context_query, 1, first - 1)
                \o SubSeq(context_query, first + 1, Len(context_query))

Returned(p, role) == [p EXCEPT !.pc = "returned", !.role = role]
Raised(p, error) == [p EXCEPT !.pc = "raised", !.error = error]

\* The end of an iteration of the retry loop of ProviderOpenAIOfficial
\* .text_chat that did not break: the next iteration, or, behind the last
\* one, `raise e`.
OpenAINextIteration(p, outcome) ==
    IF p.retry_cnt = MaxRetries - 1 THEN Raised(p, outcome)
    ELSE [p EXCEPT !.retry_cnt = @ + 1]

\* The statement behind the retry loop after a break.  `except ... as e`
\* unbinds e when the clause ends, so behind the last iteration `raise e`
\* raises UnboundLocalError.
OpenAIAfterBreak(p) ==
    IF p.retry_cnt = MaxRetries - 1 THEN Raised(p, "UnboundLocalError")
    ELSE Returned(p, "assistant")

\* One iteration of the retry loop of ProviderOpenAIOfficial.text_chat:
\* _query, and _handle_api_error on an exception.  next_key is what
\* random.choice picks when the key is changed.
OpenAIQuery(outcome, next_key) ==
    /\ ProvFrame
    /\ prov.kind = "openai" /\ prov.pc = "query"
    /\ outcome \in Outcomes.openai
    /\ LET p == [prov EXCEPT !.last = outcome,
                             !.succeeded = @ \/ outcome = "ok",
                             !.failed = IF outcome \in {"429", "invalid_key"}
                                        THEN @ \cup {prov.chosen} ELSE @]
       IN
       CASE outcome = "ok" ->
              /\ next_key = prov.chosen
              /\ prov' = OpenAIAfterBreak(p)
         [] outcome \in {"unprocessable entity", "not a VLM"} ->
              /\ next_key = prov.chosen
              /\ prov' = OpenAINextIteration([p EXCEPT !.images = FALSE], outcome)
         [] outcome = "429" ->
              IF prov.available = {prov.chosen}
              THEN /\ next_key = prov.chosen
                   /\ prov' = Raised([p EXCEPT !.available = {}], outcome)
              ELSE /\ next_key \in prov.available \ {prov.chosen}
                   /\ prov' = OpenAINextIteration(
                                 [p EXCEPT !.available = @ \ {prov.chosen},
                                           !.chosen = next_key], outcome)
         [] outcome = "maximum context length" ->
              /\ next_key = prov.chosen
              /\ prov' = OpenAINextIteration(
                            [p EXCEPT !.context_query = PopRecord(@)], outcome)
         [] outcome = "no function calling" ->
              /\ next_key = prov.chosen
              /\ prov' = OpenAINextIteration([p EXCEPT !.tools = FALSE], outcome)
         [] OTHER ->
              /\ next_key = prov.chosen
              /\ prov' = Raised(p, outcome)

\* ProviderGoogleGenAI._query starts: its locals are set from the payload.
GeminiQueryStart(p) ==
    [p EXCEPT !.system_instruction = "system" \in Range(p.context_query),
              !.query_tools = p.tools,
              !.image_modality = TRUE,
              !.temperature = DefaultTemperature]

\* One API attempt of ProviderGoogleGenAI.text_chat: an iteration of the loop
\* of _query and, when _query raises an APIError, _handle_api_error and the
\* end of the iteration of the loop of text_chat.
GeminiQuery(outcome, next_key) ==
    /\ ProvFrame
    /\ prov.kind = "gemini" /\ prov.pc = "query"
    /\ outcome \in Outcomes.gemini
    /\ LET p == [prov EXCEPT !.last = outcome,
                             !.succeeded = @ \/ outcome = "ok",
                             !.failed = IF outcome \in {"429", "invalid_key"}
                                        THEN @ \cup {prov.chosen} ELSE @]
       IN
       CASE outcome = "ok" ->
              /\ next_key = prov.chosen
              /\ prov' = Returned(p, "assistant")
         [] outcome = "recitation" ->
              /\ next_key = prov.chosen
              /\ prov' = IF prov.temperature > TemperatureLimit
                         THEN Raised(p, outcome)
                         ELSE [p EXCEPT !.temperature = @ + TemperatureStep]
         [] outcome = "no developer instruction" ->
              /\ next_key = prov.chosen
              /\ prov' = [p EXCEPT !.system_instruction = FALSE]
         [] outcome = "no function calling" ->
              /\ next_key = prov.chosen
              /\ prov' = [p EXCEPT !.query_tools = FALSE]
         [] outcome = "text output only" ->
              /\ next_key = prov.chosen
              /\ prov' = [p EXCEPT !.image_modality = FALSE]
         [] outcome \in {"429", "invalid_key"} ->
              IF prov.available = {prov.chosen}
              THEN /\ next_key = prov.chosen
                   /\ prov' = Raised([p EXCEPT !.available = {}], outcome)
              ELSE /\ next_key \in prov.available \ {prov.chosen}
                   /\ LET q == [p EXCEPT !.available = @ \ {prov.chosen},
                                         !.chosen = next_key]
                      IN prov' = IF prov.retry_cnt = GeminiRetry - 1
                                 THEN Returned(q, "none")
                                 ELSE GeminiQueryStart([q EXCEPT !.retry_cnt = @ + 1])
         [] OTHER ->
              /\ next_key = prov.chosen
              /\ prov' = Raised(p, outcome)

\* One API attempt of ProviderAnthropic.text_chat: _query, or an iteration of
\* the loop that follows a context-overflow error.
AnthropicQuery(outcome) ==
    /\ ProvFrame
    /\ prov.kind = "anthropic" /\ prov.pc = "query"
    /\ outcome \in Outcomes.anthropic
    /\ LET p == [prov EXCEPT !.last = outcome, !.succeeded = @ \/ outcome = "ok"] IN
       CASE outcome = "ok" -> prov' = Returned(p, "assistant")
         [] outcome = "maximum context length" ->
              IF ~prov.retrying
              THEN prov' = [p EXCEPT !.retrying = TRUE,
                                     !.context_query = PopRecord(@)]
              ELSE IF prov.retry_cnt - 1 > 0
              THEN prov' = [p EXCEPT !.retry_cnt = @ - 1,
                                     !.context_query = PopRecord(@)]
              ELSE prov' = Returned([p EXCEPT !.retry_cnt = @ - 1], "err")
         [] OTHER -> prov' = Raised(p, outcome)

\* LLMRequestSubStage.process.requesting behind the provider call: an
\* assistant response is saved by _save_to_history and becomes the result
\* that is sent; an err response and an exception become an error message.
StageAfterCall ==
    /\ ProvFrame
    /\ prov.pc \in {"returned", "raised"}
    /\ prov' =
          IF prov.pc = "returned" /\ prov.role = "assistant"
          THEN [prov EXCEPT !.pc = "done",
                            !.history = prov.contexts \o <<"new", "assistant">>,
                            !.sent = Append(@, "ok")]
          ELSE [prov EXCEPT !.pc = "done", !.sent = Append(@, "error")]

ProvNext ==
    \/ \E outcome \in Outcomes.openai, next_key \in ApiKeys : OpenAIQuery(outcome, next_key)
    \/ \E outcome \in Outcomes.gemini, next_key \in ApiKeys : GeminiQuery(outcome, next_key)
    \/ \E outcome \in Outcomes.anthropic : AnthropicQuery(outcome)
    \/ StageAfterCall

\* ======================================== pipeline runs of one session
\* The events of one session, in the order the adapter put them into the
\* queue; EventBus.dispatch creates a task per event, and each task runs the
\* LLM-request stage on the session's conversation.
Runs == 1..NumRuns

UserEntryOf(r) == [role |-> "user", run |-> r]
AssistantEntryOf(r) == [role |-> "assistant", run |-> r]
\* The conversation before the events: up to MaxHistory earlier entries, the
\* exchanges of earlier events.
EarlierEntries ==
    [i \in 1..MaxHistory |-> IF i % 2 = 1 THEN UserEntryOf(0) ELSE AssistantEntryOf(0)]
StoredBefore == {SubSeq(EarlierEntries, 1, n) : n \in 0..MaxHistory}

DuoStart(history) ==
    [history |-> history,
     runs |-> [r \in Runs |-> [pc |-> "queued", contexts |-> <<>>]]]

DuoIdle == duo = [DuoStart(<<>>) EXCEPT !.runs = [r \in Runs |-> [pc |-> "off", contexts |-> <<>>]]]

DuoInit == \E history \in StoredBefore : duo = DuoStart(history)

DuoFrame ==
    UNCHANGED <<busVars, regVars, llmVars, schedVars, respVars, mcpVars, convVars,
                fnVars, run, plugin_enable, prov>>

\* EventBus.dispatch takes the next event from the queue and creates the task
\* that runs the pipeline for it.
DuoDispatch(r) ==
    /\ DuoFrame
    /\ duo.runs[r].pc = "queued"
    /\ \A q \in 1..(r - 1) : duo.runs[q].pc # "queued"
    /\ duo' = [duo EXCEPT !.runs[r].pc = "spawned"]

\* LLMRequestSubStage.process up to the provider call: req.contexts is the
\* history of the conversation as it is stored now.
DuoAssemble(r) ==
    /\ DuoFrame
    /\ duo.runs[r].pc = "spawned"
    /\ duo' = [duo EXCEPT !.runs[r] = [pc |-> "calling", contexts |-> duo.history]]

\* The provider call of the run returns an assistant response or raises.
DuoProviderReturns(r, ok) ==
    /\ DuoFrame
    /\ duo.runs[r].pc = "calling"
    /\ duo' = [duo EXCEPT !.runs[r].pc = IF ok THEN "responded" ELSE "failed"]

\* _save_to_history: the history written is req.contexts, the user entry and
\* the assistant entry.
HistoryToSave(contexts, r) == contexts \o <<UserEntryOf(r), AssistantEntryOf(r)>>

DuoSave(r) ==
    /\ DuoFrame
    /\ duo.runs[r].pc = "responded"
    /\ duo' = [duo EXCEPT !.runs[r].pc = "done",
                          !.history = HistoryToSave(duo.runs[r].contexts, r)]

DuoNext ==
    \/ \E r \in Runs : DuoDispatch(r)
    \/ \E r \in Runs : DuoAssemble(r)
    \/ \E r \in Runs, ok \in BOOLEAN : DuoProviderReturns(r, ok)
    \/ \E r \in Runs : DuoSave(r)

ExtIdle == CompatIdle /\ ProvIdle /\ DuoIdle

RestIdle == FnIdle /\ RunIdle /\ ExtIdle

\* =========================================================== specifications
InitBus == BusInit /\ RegInit /\ LLMIdle /\ SchedIdle /\ RespIdle /\ McpInit /\ ConvInit /\ RestIdle
SpecBus == InitBus /\ [][BusNext]_vars
\* dispatch is a `while True` loop in a task of its own: an event waiting in
\* the queue is eventually taken.
FairSpecBus == SpecBus /\ WF_vars(Dispatch)

InitLifecycle == LifecycleInit /\ LLMIdle /\ SchedIdle /\ RespIdle /\ McpInit /\ ConvInit /\ RestIdle
SpecLifecycle == InitLifecycle /\ [][LifecycleNext]_vars

InitMcp ==
    McpInit /\ BusInit /\ RegInit /\ LLMIdle /\ SchedIdle /\ RespIdle /\ ConvInit /\ RestIdle
SpecMcp == InitMcp /\ [][McpNext]_vars
\* The event loop runs every task that is ready: the control task takes the
\* next command, and a client task goes on when what it awaits is there.
FairSpecMcp ==
    /\ SpecMcp
    /\ WF_vars(SelectorStep)
    /\ \A i \in Clients :
          /\ WF_vars(ClientStart(i))
          /\ WF_vars(\E ok \in BOOLEAN, listing \in Listings :
                        ClientConnected(i, ok, listing))
          /\ WF_vars(ClientStopped(i))

InitPairs ==
    /\ PairsInit /\ TrimIdle
    /\ BusInit /\ RegInit /\ LLMIdle /\ SchedIdle /\ RespIdle /\ McpInit /\ ConvInit
    /\ RunIdle /\ ExtIdle
SpecPairs == InitPairs /\ [][PairsNext]_vars

InitTrim ==
    /\ TrimInit /\ PairsIdle
    /\ BusInit /\ RegInit /\ LLMIdle /\ SchedIdle /\ RespIdle /\ McpInit /\ ConvInit
    /\ RunIdle /\ ExtIdle
SpecTrim == InitTrim /\ [][TrimNext]_vars

InitCompat ==
    /\ CompatIdle /\ RegInit
    /\ BusInit /\ LLMIdle /\ SchedIdle /\ RespIdle /\ McpInit /\ ConvInit
    /\ FnIdle /\ RunIdle /\ ProvIdle /\ DuoIdle
SpecCompat == InitCompat /\ [][CompatNext]_vars

InitProv ==
    /\ ProvInit /\ CompatIdle /\ DuoIdle
    /\ BusInit /\ RegInit /\ LLMIdle /\ SchedIdle /\ RespIdle /\ McpInit /\ ConvInit
    /\ FnIdle /\ RunIdle
SpecProv == InitProv /\ [][ProvNext]_vars

\* Every API attempt returns or raises, and the stage goes on behind the call.
FairSpecProv == SpecProv /\ WF_vars(ProvNext)

InitDuo ==
    /\ DuoInit /\ CompatIdle /\ ProvIdle
    /\ BusInit /\ RegInit /\ LLMIdle /\ SchedIdle /\ RespIdle /\ McpInit /\ ConvInit
    /\ FnIdle /\ RunIdle
SpecDuo == InitDuo /\ [][DuoNext]_vars

InitConv ==
    ConvInit /\ BusInit /\ RegInit /\ LLMIdle /\ SchedIdle /\ RespIdle /\ McpInit /\ RestIdle
SpecConv == InitConv /\ [][ConvNext]_vars

InitRegistry == RegInit /\ BusInit /\ LLMIdle /\ SchedIdle /\ RespIdle /\ McpInit /\ ConvInit /\ RestIdle
SpecRegistry == InitRegistry /\ [][RegNext]_vars

InitLLM == LLMInit /\ LLMRegInit /\ BusInit /\ SchedIdle /\ RespIdle /\ McpInit /\ ConvInit /\ RestIdle
SpecLLM == InitLLM /\ [][LLMNext]_vars

\* Two events, one after the other: the first is in the respond stage with a
\* one-component result; when its run is over the second enters the LLM stage.
InitHooks ==
    /\ LLMStartState({"text"}) /\ llm_cfg.provider /\ ~llm_cfg.streaming_response
    /\ store_history = <<>>
    /\ LLMRegInitAllEnabled
    /\ RespInit /\ resp_in.set /\ ~resp_cfg.only_llm_result
    /\ resp_cfg.reply_with_mention /\ resp_cfg.reply_with_quote
    /\ resp_in.content_type = "general"
    /\ resp_in.chain = <<[type |-> "Plain", value |-> "hi"]>>
    /\ BusInit /\ SchedIdle /\ McpInit /\ ConvInit /\ RestIdle

\* The run of the first event is over: the event and what the stage held for
\* it are dropped.
RespReturn ==
    /\ resp_pc = "done"
    /\ resp_pc' = "off"
    /\ resp_cfg' = [enable_seg |-> FALSE, only_llm_result |-> FALSE,
                    reply_with_mention |-> FALSE, reply_with_quote |-> FALSE]
    /\ resp_in' = NoRespResult
    /\ resp_result' = NoRespResult
    /\ decorated_comps' = <<>>
    /\ seg_idx' = 0
    /\ resp_hook_idx' = 0
    /\ resp_sent' = <<>>
    /\ resp_invoked' = {}
    /\ resp_hook_raised' = FALSE
    /\ RespFrame

HooksNext ==
    \/ RespNext
    \/ RespReturn
    \/ resp_pc = "off" /\ LLMNext
SpecHooks == InitHooks /\ [][HooksNext]_vars

InitStream == StreamInit /\ BusInit /\ SchedIdle /\ McpInit /\ ConvInit /\ FnIdle /\ ExtIdle
SpecStream == InitStream /\ [][StreamNext]_vars

InitLLMAnyInput ==
    /\ LLMInitAnyInput /\ LLMRegInitAllEnabled
    /\ BusInit /\ SchedIdle /\ RespIdle /\ McpInit /\ ConvInit /\ RestIdle
SpecLLMAnyInput == InitLLMAnyInput /\ [][LLMNext]_vars

InitSched == SchedInit /\ BusInit /\ RegInit /\ LLMIdle /\ RespIdle /\ McpInit /\ ConvInit /\ RestIdle
SpecSched == InitSched /\ [][SchedNext]_vars

InitRespond == RespInit /\ RespRegInit /\ BusInit /\ LLMIdle /\ SchedIdle /\ McpInit /\ ConvInit /\ RestIdle
SpecRespond == InitRespond /\ [][RespNext]_vars

\* =================================================================== claims
TaskEvents == [i \in 1..Len(tasks) |-> tasks[i].event]

\* The events of the tasks, in creation order, followed by the events still
\* queued, are the events put; an event has no task while queued and one after.
DispatchedInOrderOnce ==
    /\ TaskEvents \o event_queue = enqueued
    /\ \A e \in Range(enqueued) :
          Cardinality({t \in 1..Len(tasks) : tasks[t].event = e})
             = IF e \in Range(event_queue) THEN 0 ELSE 1

\* C1: every event put on the queue is taken exactly once and in put order, and
\* exactly one pipeline task is created for it: the order and the counts hold
\* in every state, and every queued event eventually has its task.
C1_DispatchFifoOnce ==
    /\ []DispatchedInOrderOnce
    /\ \A e \in Events : (e \in Range(event_queue)) ~> (e \in Range(TaskEvents))

\* Witness of C1: two events have been dispatched while a third still waits.
C1_Witness ==
    /\ Len(tasks) >= 2
    /\ Len(event_queue) >= 1

IsNonIncreasing(s) == \A i, j \in 1..Len(s) : i < j => s[i].priority >= s[j].priority

\* C2: for every event kind, get_handlers_by_event_type returns the handlers in
\* non-increasing priority order.
C2_PriorityOrder ==
    \A k \in HookKinds : IsNonIncreasing(GetHandlersByEventType(k, TRUE, NoPlatform))

\* The plugin of a handler is deactivated, or disabled for the event's platform.
DisabledForEvent(module) ==
    \/ ~star_map[module].activated
    \/ star_map[module].supported_platforms[llm_cfg.platform_id] = "disabled"

\* C3: no handler whose owning plugin is deactivated or disabled for the
\* event's platform is invoked at a hook point of the run.
C3_NoDisabledHandlerInvoked ==
    \A i \in llm_log.invoked : ~DisabledForEvent(i.module)

\* Each assistant entry with tool_calls is followed by exactly one tool entry
\* per tool-call id, in the order of the ids.
WellPaired(h) ==
    \A i \in 1..Len(h) :
        (h[i].role = "assistant" /\ h[i].tool_calls # <<>>) =>
            LET n == Len(h[i].tool_calls) IN
            /\ i + n <= Len(h)
            /\ \A k \in 1..n : /\ h[i + k].role = "tool"
                                /\ h[i + k].tool_call_id = h[i].tool_calls[k]
            /\ (i + n + 1 <= Len(h)) => h[i + n + 1].role # "tool"

\* C4: the history persisted after a tool round-trip has, after each assistant
\* entry with tool_calls, exactly one tool entry per id, in order.
C4_PersistedToolPairs ==
    (llm_log.writes > 0 /\ req.tool_calls_result.present) => WellPaired(store_history)

\* C5: while a stage's process runs, every earlier stage has been started and
\* has completed or is at (or was left at) a suspension point.
C5_EarlierStagesNotRunning ==
    \A j \in Stages :
        stage_status[j] = "running" =>
            \A i \in 1..(j - 1) : stage_status[i] \in {"suspended", "done", "abandoned"}

\* Witness of C5: the third stage runs while the first is suspended and the
\* second has completed.
C5_Witness ==
    /\ stage_status[3] = "running"
    /\ stage_status[1] = "suspended"
    /\ stage_status[2] = "done"

\* C6: after the scheduler has seen the event stopped at a stage, it starts
\* no later stage.
C6_NoStartAfterStop == sched_log.late_starts = {}

\* C7 as stated: no invocation of a stage has the later stages run for it
\* more than once.
C7_OnlyFirstSuspensionForwards ==
    \A k \in 1..Len(stack) : stack[k].forwards <= 1

\* C7, amended: the later stages are run once for every suspension of a stage
\* at which the event is not stopped.
C7_EverySuspensionForwards ==
    \A k \in 1..Len(stack) :
        stack[k].pc \in {"running", "forward", "resume"} =>
            stack[k].forwards = stack[k].yields

\* Witness of C7: a stage has suspended twice and the next stage runs for the
\* second time on its behalf.
C7_Witness ==
    \E k \in 1..Len(stack) :
        /\ stack[k].yields = 2
        /\ stack[k].pc = "forward"
        /\ k < Len(stack)
        /\ stack[k + 1].stage = stack[k].stage + 1
        /\ stack[k + 1].pc = "running"

\* The result the respond stage was entered with is a general or LLM result
\* whose chain has no component that passes its non-empty predicate.
EnteredWithEmptyChain ==
    /\ resp_in.set
    /\ resp_in.content_type \in {"general", "LLM_RESULT"}
    /\ \A i \in 1..Len(resp_in.chain) : ~ComponentValidator(resp_in.chain[i])

\* C8: for a result chain in which every component fails its non-empty
\* predicate (the chain without components included), the respond stage ends
\* with no send issued and the event stopped.
C8_EmptyChainNoSendAndStop ==
    (resp_pc = "done" /\ EnteredWithEmptyChain) =>
        /\ resp_sent = <<>>
        /\ resp_result.set /\ resp_result.stopped

CountOfType(chain, type) == Cardinality({i \in 1..Len(chain) : chain[i].type = type})
IsFurther(comp) == comp.type \notin {"At", "Reply"}
Further(chain) == SelectSeq(chain, IsFurther)

\* The messages C9 expects for a chain with one At and one Reply: one per
\* further component, in chain order, each behind the At and the Reply.
ExpectedSegments(chain) ==
    [k \in 1..Len(Further(chain)) |->
        <<chain[FirstOfType(chain, "At")], chain[FirstOfType(chain, "Reply")],
          Further(chain)[k]>>]

SentChains == [k \in 1..Len(resp_sent) |-> resp_sent[k].chain]

\* With segmented reply enabled, the stage was entered with a general or LLM
\* result whose chain has one At, one Reply and N further components.
EnteredWithDecoratedChain ==
    /\ resp_cfg.enable_seg
    /\ resp_in.set
    /\ resp_in.content_type \in {"general", "LLM_RESULT"}
    /\ CountOfType(resp_in.chain, "At") = 1
    /\ CountOfType(resp_in.chain, "Reply") = 1

\* C9 as stated: with segmented reply enabled, a chain of an At, a Reply and N
\* further components has been sent, when the sends are over, as exactly the
\* N messages At, Reply, component.
C9_SegmentsPrefixed ==
    (resp_pc \in {"hooks", "done"} /\ EnteredWithDecoratedChain) =>
        /\ SentChains = ExpectedSegments(resp_in.chain)
        /\ \A k \in 1..Len(resp_sent) : resp_sent[k].ok

\* C9, amended: when also reply_with_mention and reply_with_quote are on, the
\* result is an LLM result or only_llm_result is off, and the chain is not
\* empty by the emptiness check, the sends are the first of the N messages
\* At, Reply, component, in order; all N when no send raises, and up to the
\* first send that raises otherwise.
C9_SegmentsPrefixedWhenDecorating ==
    (/\ EnteredWithDecoratedChain
     /\ resp_cfg.reply_with_mention /\ resp_cfg.reply_with_quote
     /\ SegmentedReply(resp_cfg, resp_in)
     /\ ~IsEmptyMessageChain(resp_in.chain)) =>
        LET n == Len(resp_sent)
            expected == ExpectedSegments(resp_in.chain)
        IN /\ n <= Len(expected)
           /\ SentChains = SubSeq(expected, 1, n)
           /\ \A k \in 1..(n - 1) : resp_sent[k].ok
           /\ (resp_pc \in {"hooks", "done"} /\ (n = 0 \/ resp_sent[n].ok)) =>
                 n = Len(expected)

\* Witness of C9: a chain of an At, a Reply and two further components has
\* been sent as two messages, both behind the At and the Reply.
C9_Witness ==
    /\ resp_pc = "done"
    /\ EnteredWithDecoratedChain
    /\ resp_cfg.reply_with_mention /\ resp_cfg.reply_with_quote
    /\ Len(Further(resp_in.chain)) = 2
    /\ Len(resp_sent) = 2
    /\ \A k \in 1..2 : resp_sent[k].ok /\ Len(resp_sent[k].chain) = 3

\* C10: a finished run has issued one final empty send when the platform is
\* webchat and no send or streaming send happened during the run, and none
\* otherwise; an unfinished run has issued none.
C10_FinalEmptySend ==
    sched_log.final_sends =
        IF sched_pc = "done" /\ sched_cfg.platform_name = "webchat" /\ ~sched_log.sent
        THEN 1 ELSE 0

\* Witness of C10: a webchat run in which every stage ran and none sent has
\* ended with the final empty send.
C10_Witness ==
    /\ sched_pc = "done"
    /\ sched_cfg.platform_name = "webchat"
    /\ ~sched_log.sent
    /\ \A i \in Stages : stage_status[i] = "done"
    /\ sched_log.final_sends = 1

AnyRunFailed == \E t \in 1..Len(tasks) : tasks[t].state = "failed"

\* C11: a pipeline run that ends with an exception leaves the dispatcher
\* running, and every event queued then or later still gets its pipeline task.
C11_FailureContained ==
    /\ [](AnyRunFailed => dispatcher = "running")
    /\ \A e \in Events :
          (AnyRunFailed /\ e \in Range(event_queue)) ~> (e \in Range(TaskEvents))

\* Witness of C11: a pipeline task was created after an earlier run had failed.
C11_Witness ==
    \E t \in 1..Len(tasks) :
        /\ tasks[t].after_failure
        /\ \E u \in 1..(t - 1) : tasks[u].state = "failed"

\* C12: the event queue never holds more events than a capacity.
C12_QueueBounded == Len(event_queue) <= QueueCapacity

\* The plugin that owns a local tool has the event's platform mapped to false.
ToolPluginDisabled(name) ==
    star_map[ToolPlugin(name)].supported_platforms[llm_cfg.platform_id] = "disabled"

EntryIds(entries) == {entries[k].tool_call_id : k \in 1..Len(entries)}

HasErrorEntry(entries, id) ==
    \E k \in 1..Len(entries) :
        entries[k] = ToolCallMessageSegment(id, "error: msg")

\* C14: a tool call whose lookup or execution raises leaves a tool entry with
\* its call id and the content "error: <msg>"; the round goes on through all
\* of its calls; and it ends by handing a new request, which carries that
\* entry, to the next iteration of the call loop.
C14_ToolErrorContained ==
    /\ [](\A id \in llm_log.raised : HasErrorEntry(tool_call_result, id))
    /\ [][(llm_pc = "tools" /\ llm_pc' # "tools" /\ llm_log.raised # {}) =>
            /\ llm_log.ran \cup llm_log.skipped = Range(llm_response.tools_call_ids)
            /\ llm_pc' = "call"
            /\ req'.tool_calls_result.present
            /\ \A id \in llm_log.raised :
                  HasErrorEntry(req'.tool_calls_result.tool_calls_result, id)]_vars

\* Witness of C14: after a round in which call 1 raised and call 2 returned a
\* value, the provider has been called again with both entries.
C14_Witness ==
    /\ llm_pc = "hook_resp"
    /\ llm_log.provider_calls = 2
    /\ llm_log.raised = {1}
    /\ llm_log.ran = {1, 2}
    /\ req.tool_calls_result.tool_calls_result =
          <<ToolCallMessageSegment(1, "error: msg"), ToolCallMessageSegment(2, "value")>>

\* The entries of the latest tool round-trip, each marked _tool_call_history.
MarkedRoundTrip(tcr) ==
    IF tcr.present
    THEN <<Tag(tcr.tool_calls_info)>> \o SeqMap(Tag, tcr.tool_calls_result)
    ELSE <<>>

\* C15: the history written for a final assistant response is, in this order,
\* the request's prior contexts, the user's request entry, the assistant
\* tool_calls entry and the tool entries of the latest round-trip (each marked
\* _tool_call_history, when a round-trip happened), and one assistant entry
\* with the final completion text.
C15_PersistedHistory ==
    llm_log.writes > 0 =>
        /\ llm_response.role = "assistant"
        /\ store_history =
              req.contexts \o <<UserEntry(req.prompt)>>
                 \o MarkedRoundTrip(req.tool_calls_result)
                 \o <<AssistantEntry(llm_response.completion_text)>>

\* Witness of C15: a history was written after a round-trip with two tool
\* entries, for a request that had prior contexts.
C15_Witness ==
    /\ llm_log.writes > 0
    /\ req.contexts # <<>>
    /\ req.tool_calls_result.present
    /\ Len(req.tool_calls_result.tool_calls_result) = 2
    /\ Len(store_history) = Len(req.contexts) + 5

\* The entries that were put into the request's contexts with the _no_save
\* marker, whether or not they still carry it.
CarriedNoSave(m) == [m EXCEPT !.no_save = TRUE] = EphemeralEntry

\* C16: no entry that carried the _no_save marker in the request's contexts is
\* written to the conversation store.
C16_NoSaveNotPersisted ==
    \A k \in 1..Len(store_history) : ~CarriedNoSave(store_history[k])

\* The event result is the plain-text failure message for an exception of
\* this kind.
IsRequestFailed(r, kind) ==
    /\ r.set
    /\ r.content_type = "general"
    /\ r.chain = <<FailureText(kind)>>

\* C17 as stated: every exception raised in the call loop (by the provider
\* call, a response hook, a tool call or the history write) ends the loop with
\* the request-failed result, and none leaves the stage.
C17_EveryExceptionFails ==
    /\ llm_pc # "propagated"
    /\ (llm_log.hook_raised \/ llm_log.raised # {} \/ llm_log.failure.site # "none") =>
          /\ llm_pc = "done"
          /\ \E kind \in ExceptionKinds : IsRequestFailed(ev_result, kind)

\* C17: no exception leaves the stage; an exception of the provider call or
\* of the history write ends the loop with the request-failed result that
\* names its type and message; an exception of a response hook leaves the loop
\* running.
C17_UncaughtExceptionFails ==
    /\ llm_pc # "propagated"
    /\ llm_log.failure.site # "none" =>
          /\ llm_pc = "done"
          /\ IsRequestFailed(ev_result, llm_log.failure.kind)
          /\ llm_log.writes = 0
    /\ llm_log.hook_raised => llm_pc = "hook_resp"

\* Witness of C17: the history write of an assistant response raised a
\* CancelledError after a tool round-trip, and the stage ended with the
\* failure result.
C17_Witness ==
    /\ llm_log.failure = [site |-> "save", kind |-> "CancelledError"]
    /\ llm_log.round_trips = 1
    /\ llm_pc = "done"
    /\ IsRequestFailed(ev_result, "CancelledError")

\* C18: once stop has completed, the dispatcher task, the tasks the plugins
\* registered and every pipeline task the dispatcher spawned have exited.
C18_AllTasksExitedAfterStop ==
    lc_pc = "stopped" =>
        /\ Exited(dispatcher)
        /\ \A i \in ExtraTasks : Exited(extra_tasks[i])
        /\ ~RunInFlight

\* C19: the handler registry and the plugin map are not mutated while a
\* pipeline run is between its start and its end.
C19_NoMutationInFlight == ~lc_log.mutated_in_flight

\* A remote client is torn down: its task has exited, it is not in the client
\* map, and no tool it registered is in the tool list.
TornDown(i) ==
    /\ mcp_task[i].pc = "exited"
    /\ \A k \in 1..Len(mcp_client_dict) : mcp_client_dict[k].client # i
    /\ \A t \in mcp_func_list : t.client # i

\* C20: every remote client that existed when a terminate(name) or
\* terminate-all command was processed, or when the tool manager's terminate
\* was called, is eventually torn down.
C20_ClientsTornDown ==
    \A i \in Clients : (i \in mcp_log.affected) ~> TornDown(i)

\* C21: delete_conversation with a conversation id deletes that conversation
\* (and leaves the current-dialogue mapping alone unless it named the current
\* one); with None it deletes the session's current conversation and clears
\* the session's mapping.
C21_DeleteNamedConversation ==
    conv_log.op = "delete" =>
        LET u == conv_log.session
            current == conv_log.session_conversations[u]
        IN IF conv_log.cid # NoCid
           THEN /\ conversations = conv_log.conversations \ {<<u, conv_log.cid>>}
                /\ conv_log.cid # current =>
                      session_conversations = conv_log.session_conversations
           ELSE /\ conversations = conv_log.conversations \ {<<u, current>>}
                /\ session_conversations =
                      [conv_log.session_conversations EXCEPT ![u] = NoCid]

IsCall(m) == m.tool_call_history /\ m.role = "assistant" /\ m.tool_calls # <<>>
IsReply(m) == m.tool_call_history /\ m.role = "tool"

\* Entry i of msgs is unmarked, or opens a group (a marked assistant entry with
\* tool_calls directly followed by a marked tool entry), or is a marked tool
\* entry in the run of marked tool entries directly after such an assistant.
KeptByPruning(msgs, i) ==
    \/ ~msgs[i].tool_call_history
    \/ IsCall(msgs[i]) /\ i < Len(msgs) /\ IsReply(msgs[i + 1])
    \/ /\ IsReply(msgs[i])
       /\ \E k \in 1..(i - 1) :
             IsCall(msgs[k]) /\ \A l \in (k + 1)..i : IsReply(msgs[l])

KeptEntries(msgs) ==
    LET idx == SelectSeq([i \in 1..Len(msgs) |-> i], LAMBDA i : KeptByPruning(msgs, i))
    IN [n \in 1..Len(idx) |-> msgs[idx[n]]]

\* C22: pruning keeps the unmarked entries and, of the marked ones, exactly the groups of an assistant entry with tool_calls followed by one or more consecutive marked tool entries, in their order and otherwise unchanged (the marker is removed when asked for); pruning its own output changes nothing.
C22_PruningKeepsGroups ==
    /\ pairs.pc \in {"pruned", "again"} =>
          pairs.result = (IF pairs.remove_tags
                          THEN SeqMap(Untag, KeptEntries(pairs.messages))
                          ELSE KeptEntries(pairs.messages))
    /\ pairs.pc = "again" => pairs.again = pairs.result

C22_Witness ==
    /\ pairs.pc = "again"
    /\ \E i, j, k \in 1..Len(pairs.messages) :
          /\ IsCall(pairs.messages[i]) /\ KeptByPruning(pairs.messages, i)
          /\ pairs.messages[j].tool_call_history /\ ~KeptByPruning(pairs.messages, j)
          /\ ~pairs.messages[k].tool_call_history
\* C23: when the call loop is about to call the provider after a tool round-trip that produced tool entries, the request has no tool handle and its tool_calls_result holds the assistant segment of that round's tool calls and exactly the tool entries of that round, each answering a call of that round.
C23_NextRequestAfterRound ==
    (llm_pc = "call" /\ llm_log.round_trips > 0) =>
        /\ ~req.func_tool
        /\ req.tool_calls_result.present
        /\ req.tool_calls_result.tool_calls_info =
              AssistantMessageSegment(llm_response.tools_call_ids)
        /\ req.tool_calls_result.tool_calls_result = tool_call_result
        /\ tool_call_result # <<>>
        /\ \A i \in 1..Len(tool_call_result) :
              /\ tool_call_result[i].role = "tool"
              /\ tool_call_result[i].tool_call_id \in llm_log.ran

C23_Witness ==
    /\ llm_pc = "call"
    /\ llm_log.round_trips = 2
    /\ Len(req.tool_calls_result.tool_calls_result) = 1
\* C24: the provider is called only when a provider is selected, the request has a prompt or an image, and no on_llm_request handler stopped the event; when one of the three fails the provider is not called and no history is written.
C24_ProviderCalledOnlyWhenAsked ==
    LET asked == /\ llm_cfg.provider
                 /\ req.prompt # "" \/ req.image_urls # <<>>
                 /\ llm_log.stopped_by # "on_llm_request"
    IN /\ llm_log.provider_calls > 0 => asked
       /\ ~asked => llm_log.provider_calls = 0 /\ llm_log.writes = 0

C24_Witness ==
    /\ llm_pc = "done"
    /\ llm_cfg.provider
    /\ req.prompt = "" /\ req.image_urls # <<>>
    /\ llm_log.stopped_by = "on_llm_request"
    /\ Cardinality(llm_log.invoked) = 2
    /\ llm_log.provider_calls = 0

\* The handlers a hook loop has invoked are the first ones of its list, and a
\* handler that raised leaves the loop running and the event unstopped.
HandlersRunInOrder ==
    /\ llm_pc = "hook_req" =>
          {x \in llm_log.invoked : x.hook = "on_llm_request"} =
             {Invoke("on_llm_request", OnLLMRequestHandlers[i]) : i \in 1..(hook_idx - 1)}
    /\ llm_pc = "hook_resp" =>
          {Invoke("on_llm_response", OnLLMResponseHandlers[i]) : i \in 1..(hook_idx - 1)}
             \subseteq llm_log.invoked
    /\ resp_pc = "hooks" =>
          resp_invoked =
             {Invoke("on_after_message_sent", OnAfterMessageSentHandlers[i]) :
                 i \in 1..(resp_hook_idx - 1)}
    /\ llm_log.req_hook_raised => llm_pc = "hook_req" /\ ~ev_result.stopped
    /\ llm_log.hook_raised => llm_pc = "hook_resp" /\ ~ev_result.stopped
    /\ resp_hook_raised => resp_pc = "hooks" /\ ~resp_result.stopped

\* A step in which a hook handler raises.
RaisingStepContained ==
    /\ (llm_pc = "hook_req" /\ llm_log'.req_hook_raised /\ llm_log' # llm_log) =>
          /\ req' = req /\ ev_result' = ev_result
          /\ llm_pc' = llm_pc /\ hook_idx' = hook_idx + 1
    /\ (llm_pc = "hook_resp" /\ llm_log'.hook_raised /\ llm_log' # llm_log) =>
          /\ llm_response' = llm_response /\ ev_result' = ev_result
          /\ llm_pc' = llm_pc /\ hook_idx' = hook_idx + 1
    /\ (resp_pc = "hooks" /\ resp_hook_raised' /\ resp_invoked' # resp_invoked) =>
          /\ resp_result' = resp_result
          /\ resp_pc' = resp_pc /\ resp_hook_idx' = resp_hook_idx + 1

\* C25: a step in which a handler of the on_llm_request, on_llm_response or on_after_message_sent hook raises leaves the event result and the request as they were, does not stop the event, and moves the loop of that hook on to the next handler, so that the handlers invoked are always the first ones of the hook's list, in its order.
C25_HookFailureContained == []HandlersRunInOrder /\ [][RaisingStepContained]_vars

C25_Witness ==
    /\ llm_pc = "hook_resp" /\ hook_idx = 3 /\ llm_log.hook_raised
    /\ Cardinality({x \in llm_log.invoked : x.hook = "on_llm_request"}) = 2
\* C26: with max_context_length > 0 and a history of more than max_context_length rounds (length / 2), the contexts sent are the last (max_context_length - dequeue_context_length + 1) * 2 entries from their first user entry on; they begin with a user entry and hold at most max_context_length rounds.
C26_TrimmedHistory ==
    (/\ trim.pc = "trimmed"
     /\ trim.max_context_length > 0
     /\ Len(trim.contexts) \div 2 > trim.max_context_length) =>
        /\ trim.result =
              FromFirstUser(LastEntries(trim.contexts,
                 (trim.max_context_length - trim.dequeue_context_length + 1) * 2))
        /\ trim.result # <<>> /\ trim.result[1].role = "user"
        /\ Len(trim.result) \div 2 <= trim.max_context_length
\* C27: when an exception or a cancellation ends the call loop after a tool round-trip has produced tool entries, the run has written nothing: the stored history is the one the event found.
C27_AbortedRunWritesNothing ==
    (llm_log.failure.site # "none" /\ llm_log.round_trips > 0) =>
        /\ llm_log.writes = 0
        /\ store_history = llm_log.store_before

C27_Witness ==
    /\ llm_log.failure = [site |-> "provider", kind |-> "CancelledError"]
    /\ llm_log.round_trips = 1
    /\ Len(req.tool_calls_result.tool_calls_result) = 2
    /\ store_history # <<>>
\* Everything the run has sent, the sends of the visit in progress included.
AllSent == run.sent \o resp_sent

\* The streaming send has returned and the final assistant response has set
\* the result of kind STREAMING_FINISH.
StreamedFinal ==
    /\ \E i \in 1..Len(AllSent) : AllSent[i].how = "send_streaming"
    /\ llm_pc = "done"
    /\ llm_response.role = "assistant"
    /\ llm_log.stopped_by # "on_llm_response"

\* C28 as stated: after the streaming send and the streaming-final result, no visit of the respond stage sends anything: the streaming send is the only send of the run.
C28_NoSendAfterStream ==
    StreamedFinal => Len(AllSent) = 1

\* C28: a visit of the respond stage that finds the streaming-final result sends nothing, and after the streaming send and the streaming-final result no ordinary or segmented send carries the final text (a later visit may send the result of a tool handler or the failure message).
C28_FinalTextNotResent ==
    /\ (resp_in.set /\ resp_in.content_type = "STREAMING_FINISH") => resp_sent = <<>>
    /\ StreamedFinal =>
          \A i \in 1..Len(AllSent) :
              AllSent[i].how = "send" =>
                  [type |-> "Plain", value |-> llm_response.completion_text]
                      \notin Range(AllSent[i].chain)

C28_Witness ==
    /\ run.pc = "last_visit" /\ resp_pc = "done"
    /\ resp_in.set /\ resp_in.content_type = "STREAMING_FINISH"
    /\ StreamedFinal
    /\ llm_log.round_trips = 1
    /\ AllSent = <<[how |-> "send_streaming", chain |-> <<>>, ok |-> TRUE]>>

ToolsOfServer(n) == {t \in mcp_func_list : t.server = n}

\* The tools of a server in the tool list are those one client listed.
ToolsOfOneClient ==
    \A n \in Servers : \A t \in ToolsOfServer(n) :
        ToolsOfServer(n) = FuncTools(n, t.client, mcp_log.listed[t.client])

\* A step in which _init_mcp_client returns True leaves, for the name of its
\* server, the tools its new client listed.
RegistersOwnTools ==
    \A i \in Clients :
        (i \notin Range(mcp_log.connected) /\ i \in Range(mcp_log'.connected)) =>
            ToolsOfServer(mcp_task[i].name)' =
                FuncTools(mcp_task[i].name, i, mcp_log'.listed[i])

\* C29: when the initialisation of a remote server completes, the tool list
\* holds for that server name exactly the tools the newly connected client
\* listed; tools of a prior instance of the server are never in the list next
\* to them, also when the server is initialised again with no terminate in
\* between.
C29_ToolsOfNewClientOnly == []ToolsOfOneClient /\ [][RegistersOwnTools]_vars

\* Witness of C29: server s1 was initialised twice and no terminate or
\* shutdown has happened; the first client listed two tools and registered
\* them, the second one connected later and listed one, and the tool list
\* holds that one tool.
C29_Witness ==
    /\ mcp_task[1] = [pc |-> "waiting", name |-> "s1"]
    /\ mcp_task[2] = [pc |-> "waiting", name |-> "s1"]
    /\ mcp_log.connected = <<1, 2>>
    /\ mcp_log.listed[1] = {"t1", "t2"}
    /\ mcp_log.listed[2] = {"t1"}
    /\ mcp_log.affected = {} /\ ~mcp_log.shutdown
    /\ \A i \in Clients : ~mcp_event_set[i]
    /\ mcp_func_list = FuncTools("s1", 2, {"t1"})

\* C30: the connection resources of a remote client are released by the
\* client task that acquired them, never by another task.
C30_ReleasedByOwnTask ==
    \A i \in Clients : mcp_log.released_by[i] \in {"nobody", "own task"}

\* C31: the cached platform map of every plugin agrees with the platform
\* settings after every update of them: a plugin is enabled on a platform
\* unless the settings map the platform and the plugin's name to false.
C31_CacheAgreesWithConfig ==
    \A m \in Plugins, p \in Platforms :
        IsEnabledForPlatform([handler_module_path |-> m], p) <=>
            ~(plugin_enable[p].present /\ plugin_enable[p].plugins[m] = "false")

\* C32: within one provider call a key that failed with a rate-limit or an
\* invalid-key error has left the call's key pool and is not the key of a
\* later attempt; the call goes on with another key while one remains, and
\* ends with an error when the pool is empty.
C32_KeyRotation ==
    /\ prov.failed \cap prov.available = {}
    /\ prov.pc = "query" => prov.chosen \notin prov.failed
    /\ (prov.pc # "query" /\ prov.last \in {"429", "invalid_key"}) =>
          /\ prov.available = {}
          /\ prov.error = prov.last

\* C33: every provider text_chat call terminates: after finitely many API
\* attempts it has returned a response or raised, whatever errors the
\* attempts end with.
C33_CallTerminates == <>(prov.pc \in {"returned", "raised", "done"})

\* C40: a text_chat call in which an API attempt succeeded returns the LLM
\* response, also when it was the last attempt of the retry budget; the call
\* raises only when every attempt failed.
C40_SuccessReturns ==
    prov.succeeded => (prov.pc # "raised" /\ prov.role = "assistant")

\* The contexts a provider call ended with, without the system prompt.
TrimmedContexts == SelectSeq(prov.context_query, LAMBDA x : x # "system")

\* C34: when a provider call has returned an assistant response, after
\* context-overflow errors that dropped the oldest entries or without any,
\* the history written is the contexts the call ended with plus the
\* response (dropped entries are not written back), and one reply is sent.
C34_TrimmedHistoryWritten ==
    (prov.pc = "done" /\ prov.role = "assistant") =>
        /\ prov.history = TrimmedContexts \o <<"assistant">>
        /\ prov.sent = <<"ok">>

\* C35: in a pipeline run in which no stage stops the event and no
\* invocation of a stage suspends twice, no stage's process is invoked a
\* second time, and at the end of the run every stage has been invoked.
C35_StagesInvokedOnce ==
    (~sched_log.stopped /\ ~sched_log.second_yield) =>
        /\ sched_log.restarted = {}
        /\ sched_pc = "done" => sched_log.started = Stages

\* The sends of the run that reached the platform with a component of the
\* result chain a tool handler set.
SendsOfToolResult ==
    {i \in 1..Len(AllSent) :
        /\ AllSent[i].how = "send" /\ AllSent[i].ok
        /\ [type |-> "Plain", value |-> ToolResultText] \in Range(AllSent[i].chain)}

\* C36: a result chain that was set once for the event (here the result of a
\* tool handler) is sent to the platform at most once in the pipeline run,
\* whatever the on_after_message_sent hooks do.
C36_ResultSentAtMostOnce == Cardinality(SendsOfToolResult) <= 1

\* C37: when two pipeline runs of one session have both completed their LLM
\* exchange, the stored history holds the user and the assistant entry of
\* both.
C37_NoExchangeLost ==
    \A r \in Runs :
        (\A q \in Runs : duo.runs[q].pc = "done") =>
            {UserEntryOf(r), AssistantEntryOf(r)} \subseteq Range(duo.history)

\* C38: after any sequence of append, remove and clear the two indexes of the
\* registry agree: a full name is a key of the name map exactly when a handler
\* of that name is in the priority list, and the length of the registry is the
\* number of handlers registered in the map.
NamesInList == {handlers[i].handler.handler_full_name : i \in 1..Len(handlers)}
NamesInMap == {h.handler_full_name : h \in star_handlers_map}
C38_IndexesAgree ==
    /\ NamesInMap = NamesInList
    /\ Len(handlers) = Cardinality(star_handlers_map)

\* C39: the call loop of the LLM stage ends after at most two provider calls,
\* the initial one and the one behind a tool round trip, whatever role the
\* second response carries: with two calls made, the loop is never again at
\* the provider call.
C39_AtMostTwoCalls == ~(llm_pc = "call" /\ llm_log.provider_calls >= 2)

====
